---- MODULE Spec2Model ----
(***************************************************************************)
(* Epoch orchestration of utils/general.py (CenterProcessor.run) together  *)
(* with the data-processor hooks it calls and the dataset constructor of   *)
(* utils/datasets.py.                                                      *)
(*                                                                         *)
(* One training job is a set of processes (rank -1 alone, or ranks 0..N-1) *)
(* that each construct a CenterProcessor and execute run().  The job can   *)
(* be terminated at any point and started again with resume = a checkpoint *)
(* file it wrote.  The loop body is split at the statements of run().      *)
(*                                                                         *)
(* Beside the job: check_cfgs on configurations valid or not (SpecCfgs),   *)
(* the hooks of the data processor under any caller (SpecHooks), the       *)
(* registry and pipeline builder of utils/augment.py (SpecAugment), the    *)
(* dataset constructor over any directory listing (SpecDatasets), the      *)
(* model builder SmartModel (SpecModel), and the job under progressive     *)
(* learning with every kind of size-changing pipeline step (SpecProg).     *)
(***************************************************************************)
EXTENDS Integers, Sequences, FiniteSets, TLC

\* ---------------------------------------------------------------- bounds
MaxWarm == 2
MaxEpochs == 3
MaxFit == 2
MaxMile == 2
MixDen == 2
NProc == 2
MaxAugs == 3
MaxClasses == 2
MaxFiles == 1

\* ------------------------------------------------------- augment pipelines
\* Token lists of data_cfg['train']['augment'] / data_cfg['val']['augment'].
TrainAugs == <<"random_horizonflip", "resize", "to_tensor">>
ValAugs == <<"resize", "to_tensor">>

SizeOps == {"center_crop", "resize"}

\* CenterCropAndResize(center_size, re_size): the combined step, a container
\* of a crop and a resize sub-step.  It is an object whose last sub-step can be
\* assigned (m[-1] = ...): obj tells two combined steps apart, and every
\* pipeline that holds the object sees the assignment.
CenterCropAndResize(center_size, re_size, obj) ==
    [op |-> "centercrop_resize", size |-> center_size, resize |-> re_size, obj |-> obj]

\* create_AugTransforms: one step per token, in the order of the tokens; the
\* size-changing steps are built for the configured image size.  A pipeline
\* (T.Compose) is an object: id tells two pipelines with equal steps apart.
\* The combined step has no function in the registry of utils/augment.py as
\* it stands: its token is taken to build it like the other size-changing
\* steps, for the configured image size.
create_AugTransforms(augments, imgsz, id) ==
    [id |-> id,
     transforms |-> [i \in 1..Len(augments) |->
                       IF augments[i] = "centercrop_resize"
                       THEN CenterCropAndResize(imgsz, imgsz, <<id, i>>)
                       ELSE [op |-> augments[i],
                             size |-> IF augments[i] \in SizeOps THEN imgsz ELSE 0]]]

\* The steps of a pipeline without the object identity.
Steps(p) == p.transforms

\* --------------------------------------------------------------- variables
VARIABLES
    cfg,            \* the configuration (cfgs['model'|'data'|'hyp']) of the job
    ranks,          \* the ranks of the job's processes: {-1} or {0, 1, ...}
    env,            \* the job's environment: cuda (the answers torch.cuda.is_available()
                    \* can give), fitness (the values the one-epoch step can return),
                    \* seeded (a rerun of an epoch returns the fitness of its first run),
                    \* kill (the job can be terminated before it completes)
    run,            \* "fresh": run(resume = None); "resumed": run(resume = slot)
    resume,         \* the bundle torch.load(resume) yields, <<>> when resume is None
    P,              \* per rank: the CenterProcessor and the locals of run()
    last,           \* project/last.pt: <<>> or <<bundle>>
    best,           \* project/best.pt: <<>> or <<bundle>>
    class_indices,  \* project/class_indices.json: <<>> or <<content>>
    fit,            \* the fitness the one-epoch step returned per epoch (-1: not yet run)
    calls,          \* history: per run and rank, what each one-epoch call was given
    writes          \* history: every file write, in order

vars == <<cfg, ranks, env, run, resume, P, last, best, class_indices, fit, calls, writes>>

Runs == {"fresh", "resumed"}
NoPipeline == [id |-> 0, transforms |-> <<>>]
NoLam == 0
MaxTotal == MaxEpochs + MaxWarm

\* ------------------------------------------------------------ configuration
\* The loss flags hyp_cfg['loss'] = {ce: ..., bce: ...}.
Loss(l) == [ce |-> l = "ce", bce |-> l = "bce"]

\* The model_cfg / hyp_cfg / data_cfg values that check_cfgs and the run
\* controller read.  mixup is the ratio in units of 1/MixDen; milestone holds
\* the elements of the evaluated milestone, milestone_is_list whether it is a
\* list and milestone_ints whether its elements are ints (rather than floats
\* of the same value); warm_is_int likewise for warm_ep; focal is
\* "<on> <effect epoch>".
BaseCfg(w, e) ==
    [choice |-> "torchvision", kwargs |-> {}, pretrained |-> FALSE,
     optimizer |-> "sgd",
     scheduler |-> IF w = 0 THEN "cosine" ELSE "cosine_with_warm",
     warm_ep |-> w, warm_is_int |-> TRUE, epochs |-> e,
     mixup |-> 0, milestone |-> <<0, 1>>,
     milestone_is_list |-> TRUE, milestone_ints |-> TRUE,
     loss |-> Loss("bce"), focal_on |-> FALSE, focal_eff_epo |-> 0,
     prog_learn |-> FALSE, aug_epoch |-> 1, imgsz |-> 4,
     train_augs |-> TrainAugs, val_augs |-> ValAugs]

Warmups == {we \in (0..MaxWarm) \X (1..MaxEpochs) : we[1] < we[2]}
\* Relative epochs are negative during warmup, and so can a milestone be.
Milestones == (-1..MaxMile) \X (-1..MaxMile)

\* The loss / focal-loss strategies.
FocalCfgs ==
    {[BaseCfg(we[1], we[2]) EXCEPT !.loss = Loss(l[1]), !.focal_on = l[2], !.focal_eff_epo = x] :
        we \in Warmups, l \in {<<"ce", FALSE>>, <<"bce", FALSE>>, <<"bce", TRUE>>},
        x \in -1..MaxMile}

\* The mixup strategies.
MixupCfgs ==
    {[BaseCfg(we[1], we[2]) EXCEPT !.mixup = m, !.milestone = ms] :
        we \in Warmups, m \in 0..MixDen, ms \in Milestones}

\* The augmentation curricula: weaken epoch (check_cfgs puts no lower bound
\* on it) and progressive learning.
AugCfgs ==
    {[BaseCfg(we[1], we[2]) EXCEPT !.mixup = MixDen, !.milestone = ms,
                                  !.prog_learn = pl, !.aug_epoch = a] :
        we \in Warmups, ms \in Milestones, pl \in BOOLEAN, a \in -1..MaxMile + 1}

Configs == FocalCfgs \cup MixupCfgs \cup AugCfgs

\* Train / val token lists with each kind of size-changing step: a resize, a
\* crop before another step, a crop as the last step, a combined step.
AugPairs ==
    {<<TrainAugs, ValAugs>>,
     <<<<"random_horizonflip", "center_crop", "to_tensor">>, <<"center_crop", "to_tensor">>>>,
     <<<<"random_horizonflip", "center_crop">>, <<"center_crop">>>>,
     <<<<"random_horizonflip", "centercrop_resize", "to_tensor">>,
       <<"centercrop_resize", "to_tensor">>>>}

\* Progressive learning over these pipelines.
ProgCfgs ==
    {[BaseCfg(we[1], we[2]) EXCEPT !.mixup = MixDen, !.milestone = ms,
                                  !.prog_learn = TRUE, !.aug_epoch = a,
                                  !.train_augs = p[1], !.val_augs = p[2]] :
        we \in Warmups, ms \in Milestones, a \in 0..MaxMile + 1, p \in AugPairs}

\* check_cfgs 65-71: the model source, kwargs and the pretrained/normalize pairing
check_model(c) ==
    /\ c.choice \in {"torchvision", "custom"}
    /\ (c.kwargs # {} /\ c.pretrained) => c.kwargs \subseteq {"dropout"}
    /\ LET tn == \E i \in 1..Len(c.train_augs) : c.train_augs[i] = "normalize"
           vn == \E i \in 1..Len(c.val_augs) : c.val_augs[i] = "normalize"
       IN  (c.pretrained /\ tn /\ vn) \/ (~c.pretrained /\ ~tn /\ ~vn)

\* check_cfgs 73: int(ce) + int(bce) == 1
check_loss(c) ==
    (IF c.loss.ce THEN 1 ELSE 0) + (IF c.loss.bce THEN 1 ELSE 0) = 1

\* check_cfgs 75
check_optimizer(c) == c.optimizer \in {"sgd", "adam"}

\* Mutant of check_scheduler: warm_ep may equal epochs.
check_scheduler_le(c) ==
    /\ c.scheduler \in {"linear", "cosine", "linear_with_warm", "cosine_with_warm"}
    /\ c.warm_ep >= 0 /\ c.warm_is_int /\ c.warm_ep <= c.epochs
    /\ c.warm_ep = 0 => c.scheduler \in {"linear", "cosine"}
    /\ c.warm_ep > 0 => c.scheduler \in {"linear_with_warm", "cosine_with_warm"}

\* check_cfgs 77-80
check_scheduler(c) ==
    /\ c.scheduler \in {"linear", "cosine", "linear_with_warm", "cosine_with_warm"}
    /\ c.warm_ep >= 0 /\ c.warm_is_int /\ c.warm_ep < c.epochs
    /\ c.warm_ep = 0 => c.scheduler \in {"linear", "cosine"}
    /\ c.warm_ep > 0 => c.scheduler \in {"linear_with_warm", "cosine_with_warm"}

\* Mutant of check_focal: the loss is not looked at.
check_focal_any(c) == TRUE

\* check_cfgs 83
check_focal(c) == c.focal_on => c.loss.bce

\* Mutant of check_mixup: start may equal end.
check_mixup_le(c) ==
    /\ c.mixup >= 0 /\ c.mixup <= MixDen /\ c.milestone_is_list
    /\ Len(c.milestone) = 2
    /\ c.milestone_ints /\ c.milestone[1] <= c.milestone[2]

\* check_cfgs 85-89; unpacking a milestone that has not two elements raises.
check_mixup(c) ==
    /\ c.mixup >= 0 /\ c.mixup <= MixDen /\ c.milestone_is_list
    /\ Len(c.milestone) = 2
    /\ c.milestone_ints /\ c.milestone[1] < c.milestone[2]

\* check_cfgs 91
check_prog(c) ==
    c.prog_learn => (c.mixup > 0 /\ c.aug_epoch >= c.milestone[2])

\* a in augs, for a list of tokens
Has(augs, a) == \E i \in 1..Len(augs) : augs[i] = a

\* train_augs[-n:]
Suffix(augs, n) ==
    IF n = 0 \/ n >= Len(augs) THEN augs ELSE SubSeq(augs, Len(augs) - n + 1, Len(augs))

\* Mutant of check_augment: the two lists are compared for the size tokens only.
check_augment_sizes(train_augs, val_augs) ==
    /\ ~(Has(train_augs, "center_crop") /\ Has(train_augs, "resize"))
    /\ \A a \in SizeOps : Has(train_augs, a) => Has(val_augs, a)

\* check_cfgs 93-101
check_augment(train_augs, val_augs) ==
    /\ ~(Has(train_augs, "center_crop") /\ Has(train_augs, "resize"))
    /\ \A a \in SizeOps : Has(train_augs, a) => Has(val_augs, a)
    /\ Suffix(train_augs, Len(val_augs)) = val_augs

\* check_cfgs: TRUE when no assertion fails and nothing raises.
check_cfgs(c) ==
    /\ check_model(c)
    /\ check_loss(c)
    /\ check_optimizer(c)
    /\ check_scheduler(c)
    /\ check_focal(c)
    /\ check_mixup(c)
    /\ check_prog(c)
    /\ check_augment(c.train_augs, c.val_augs)

\* Configurations as they can be handed to check_cfgs, valid or not.
Tokens == {"center_crop", "resize", "random_horizonflip"}
TokenLists(n) == UNION {[1..k -> Tokens] : k \in 0..n}
Schedulers == {"linear", "cosine", "linear_with_warm", "cosine_with_warm", "step"}

RawAug ==
    {[BaseCfg(0, 1) EXCEPT !.train_augs = t, !.val_augs = v] :
        t \in TokenLists(MaxAugs), v \in TokenLists(MaxAugs - 1)}

RawWarm ==
    {[BaseCfg(0, 1) EXCEPT !.warm_ep = w, !.warm_is_int = i, !.epochs = e, !.scheduler = sch] :
        w \in -1..MaxWarm, i \in BOOLEAN, e \in 0..MaxEpochs, sch \in Schedulers}

RawMix ==
    {[BaseCfg(0, 2) EXCEPT !.mixup = m, !.milestone = ms, !.milestone_is_list = l,
                          !.milestone_ints = i, !.prog_learn = pl, !.aug_epoch = a] :
        m \in -1..MixDen + 1, ms \in UNION {[1..k -> -1..MaxMile - 1] : k \in 1..3},
        l \in BOOLEAN, i \in BOOLEAN, pl \in BOOLEAN, a \in 0..MaxMile}

RawLoss ==
    {[BaseCfg(we[1], we[2]) EXCEPT !.loss = [ce |-> a, bce |-> b],
                                  !.focal_on = f, !.focal_eff_epo = x] :
        we \in {<<0, 2>>, <<1, 2>>}, a \in BOOLEAN, b \in BOOLEAN, f \in BOOLEAN,
        x \in 0..1}

RawCfgs == RawAug \cup RawWarm \cup RawMix \cup RawLoss

\* ------------------------------------------------------ state of a process
\* Mutant of is_coordinator: the rank test is dropped.
is_coordinator_any(rank) == TRUE

\* rank in {-1, 0}
is_coordinator(rank) == rank \in {-1, 0}

\* model.state_dict(): the keys carry the "module." prefix of a DDP wrapper.
state_dict(m) == [prefix |-> m.ddp, w |-> m.w]
\* model.module of a DDP wrapper.
module(m) == [m EXCEPT !.ddp = FALSE]
\* DDP(model, device_ids=[rank])
DDP(m) == [m EXCEPT !.ddp = TRUE]

\* torch.linspace(a, b, 3, dtype=int32).tolist(): start, the middle (a + b) / 2
\* truncated towards zero, end.
linspace3(a, b) ==
    <<a, IF a + b >= 0 THEN (a + b) \div 2 ELSE -((-(a + b)) \div 2), b>>

\* __init__ 274: the first key of hyp_cfg['loss'] whose flag is set
loss_choice(c) ==
    IF c.loss.ce THEN "ce" ELSE IF c.loss.bce THEN "bce" ELSE "IndexError"

\* CenterProcessor.__init__ for rank r on device d (which includes
\* SmartDataProcessor.__init__: the train and the val dataset, each with a
\* pipeline built from its token list).
CenterProcessor(c, r, d) ==
    [pc |-> IF loss_choice(c) = "IndexError" THEN "error" ELSE "start",
     rank |-> r, device |-> d,
     model |-> [ddp |-> FALSE, w |-> 0],
     optimizer |-> [momentum |-> "warmup_momentum", state |-> 0],
     scheduler |-> 0,
     scaler |-> 0,
     train_transforms |-> create_AugTransforms(c.train_augs, c.imgsz, 1),
     val_transforms |-> create_AugTransforms(c.val_augs, c.imgsz, 2),
     next_id |-> 3,
     lossfn |-> loss_choice(c),
     beta |-> 1,
     mixup_chnodes |-> IF c.prog_learn
                       THEN SubSeq(linspace3(c.milestone[1], c.milestone[2]), 1, 2)
                       ELSE <<>>,
     focal |-> IF loss_choice(c) = "bce" /\ c.focal_on THEN "focal" ELSE "None",
     focal_eff_epo |-> c.focal_eff_epo,
     focal_on |-> c.focal_on,
     epoch |-> 0, best_fitness |-> 0, fitness |-> 0, prev_best |-> 0,
     is_mixup |-> FALSE, lam |-> NoLam]

\* SmartDataProcessor.set_augment: None stands for the val pipeline object.
set_augment(s, mode, sequence) ==
    LET seq == IF sequence = NoPipeline THEN s.val_transforms ELSE sequence
    IN  IF mode = "train" THEN [s EXCEPT !.train_transforms = seq]
                          ELSE [s EXCEPT !.val_transforms = seq]

\* Mutant of auto_aug_weaken: every epoch from the milestone on weakens.
auto_aug_weaken_from(s, epoch, milestone) ==
    IF epoch >= milestone THEN set_augment(s, "train", NoPipeline) ELSE s

auto_aug_weaken(s, epoch, milestone) ==
    IF epoch = milestone THEN set_augment(s, "train", NoPipeline) ELSE s

set_optimizer_momentum(s, momentum) ==
    [s EXCEPT !.optimizer.momentum = momentum]

\* Mutant of auto_replace_lossfn: the effect epoch itself is skipped.
auto_replace_lossfn_late(s, lossfn, cur_epo, effect_epo, on) ==
    IF ~on \/ cur_epo <= effect_epo THEN s
    ELSE [s EXCEPT !.lossfn = lossfn, !.focal_on = FALSE]

auto_replace_lossfn(s, lossfn, cur_epo, effect_epo, on) ==
    IF ~on \/ cur_epo < effect_epo THEN s
    ELSE [s EXCEPT !.lossfn = lossfn, !.focal_on = FALSE]

\* Mutant of auto_mixup: the end of the window is included.
auto_mixup_closed(s, mixup, epoch, milestone, u) ==
    IF mixup = 0 \/ epoch > milestone[2] \/ epoch < milestone[1]
    THEN <<FALSE, NoLam>>
    ELSE <<u < mixup, s.beta>>

\* auto_mixup: u is the uniform sample in units of 1/MixDen; the weight drawn
\* from Beta(alpha, alpha) is represented by alpha (in tenths).
auto_mixup(s, mixup, epoch, milestone, u) ==
    IF mixup = 0 \/ epoch >= milestone[2] \/ epoch < milestone[1]
    THEN <<FALSE, NoLam>>
    ELSE <<u < mixup, s.beta>>

Resize(size) == [op |-> "resize", size |-> size]

\* Mutant of prog_sequence: a crop step gets the new target size, no resize
\* step is inserted after it.
RECURSIVE prog_sequence_crop(_, _, _)
prog_sequence_crop(train_augs, i, size) ==
    IF i > Len(train_augs) THEN <<>>
    ELSE LET m == train_augs[i]
         IN  (IF m.op = "center_crop" THEN <<[m EXCEPT !.size = size]>>
              ELSE IF m.op = "resize" THEN <<Resize(size)>>
              ELSE IF m.op = "centercrop_resize" THEN <<[m EXCEPT !.resize = size]>>
              ELSE <<m>>)
             \o prog_sequence_crop(train_augs, i + 1, size)

\* The loop of auto_prog over the steps of the train pipeline (351-361): the
\* steps of the new sequence.  A combined step is the object it was, with its
\* last sub-step assigned (359).
RECURSIVE prog_sequence(_, _, _)
prog_sequence(train_augs, i, size) ==
    IF i > Len(train_augs) THEN <<>>
    ELSE LET m == train_augs[i]
         IN  (IF m.op = "center_crop"
              THEN IF i < Len(train_augs) /\ train_augs[i + 1].op # "resize"
                   THEN <<m, Resize(size)>> ELSE <<m>>
              ELSE IF m.op = "resize" THEN <<Resize(size)>>
              ELSE IF m.op = "centercrop_resize" THEN <<[m EXCEPT !.resize = size]>>
              ELSE <<m>>)
             \o prog_sequence(train_augs, i + 1, size)

\* The pipeline p after m[-1] = Resize(size) on the combined steps of
\* train_augs: p sees the assignment in every step that is one of these objects.
assigned(p, train_augs, size) ==
    [p EXCEPT !.transforms =
        [i \in 1..Len(p.transforms) |->
            IF /\ p.transforms[i].op = "centercrop_resize"
               /\ \E j \in 1..Len(train_augs) :
                     /\ train_augs[j].op = "centercrop_resize"
                     /\ train_augs[j].obj = p.transforms[i].obj
            THEN [p.transforms[i] EXCEPT !.resize = size]
            ELSE p.transforms[i]]]

auto_prog(s, epoch, min_imgsz) ==
    LET chnodes == s.mixup_chnodes
        s1 == IF epoch = chnodes[1] THEN [s EXCEPT !.beta = 1]
              ELSE IF epoch = chnodes[2] THEN [s EXCEPT !.beta = 2]
              ELSE s
        imgsz_milestone == linspace3(min_imgsz \div 2, min_imgsz)
        train_augs == s1.train_transforms.transforms
        rewrite(size) ==
            set_augment([s1 EXCEPT !.next_id = @ + 1,
                                   !.val_transforms = assigned(@, train_augs, size)],
                        "train",
                        [id |-> s1.next_id,
                         transforms |-> prog_sequence(train_augs, 1, size)])
    IN  IF epoch = 0 THEN rewrite(imgsz_milestone[1])
        ELSE IF epoch = chnodes[1] THEN rewrite(imgsz_milestone[2])
        ELSE IF epoch = chnodes[2] THEN rewrite(imgsz_milestone[3])
        ELSE s1

\* The one-epoch train/validate step (utils/train.py): it trains the model,
\* steps optimizer and scheduler, updates the scaler when it is enabled
\* (device is not the cpu) and returns the fitness f.
train_one_epoch(s, f) ==
    [s EXCEPT !.model.w = @ + 1,
              !.optimizer.state = @ + 1,
              !.scheduler = @ + 1,
              !.scaler = IF s.device # "cpu" THEN @ + 1 ELSE @,
              !.prev_best = s.best_fitness,
              !.fitness = f]

\* Mutant of total_epoch: the warmup epochs are not added.
total_epoch_no_warm(c) == c.epochs

\* run() 412
total_epoch(c) == c.epochs + c.warm_ep

\* Mutant of update_best: the fitness of the epoch is recorded, greater or not.
update_best_latest(s) == [s EXCEPT !.best_fitness = s.fitness]

\* run() 441-442
update_best(s) ==
    IF s.fitness > s.best_fitness THEN [s EXCEPT !.best_fitness = s.fitness] ELSE s

\* Mutant of ckpt: the bundle names the epoch to run next.
ckpt_next_epoch(s) ==
    [epoch |-> s.epoch + 1,
     best_fitness |-> s.best_fitness,
     model |-> IF s.rank = -1 THEN state_dict(s.model) ELSE state_dict(module(s.model)),
     optimizer |-> s.optimizer,
     scheduler |-> s.scheduler,
     scaler |-> IF s.device # "cpu" THEN <<s.scaler>> ELSE <<>>]

\* run() 446-454: the checkpoint bundle
ckpt(s) ==
    [epoch |-> s.epoch,
     best_fitness |-> s.best_fitness,
     model |-> IF s.rank = -1 THEN state_dict(s.model) ELSE state_dict(module(s.model)),
     optimizer |-> s.optimizer,
     scheduler |-> s.scheduler,
     scaler |-> IF s.device # "cpu" THEN <<s.scaler>> ELSE <<>>]

\* Mutant of is_best: every bundle goes to the "best" slot.
is_best_always(s) == TRUE

\* run() 458: whether the bundle also goes to the "best" slot
is_best(s) == s.best_fitness = s.fitness

\* Mutant of load_checkpoint: the optimizer state is not loaded.
load_checkpoint_no_optimizer(s, ckp) ==
    LET s1 == [s EXCEPT !.epoch = ckp.epoch + 1,
                        !.best_fitness = ckp.best_fitness]
    IN  IF ckp.model.prefix # s1.model.ddp THEN [s1 EXCEPT !.pc = "error"]
        ELSE LET s2 == [s1 EXCEPT !.model.w = ckp.model.w,
                                  !.scheduler = ckp.scheduler]
             IN  IF s2.device = "cpu" THEN s2
                 ELSE IF ckp.scaler = <<>> THEN [s2 EXCEPT !.pc = "error"]
                 ELSE [s2 EXCEPT !.scaler = ckp.scaler[1]]

\* Mutant of load_checkpoint: best_fitness starts from 0 again.
load_checkpoint_no_best(s, ckp) ==
    LET s1 == [s EXCEPT !.epoch = ckp.epoch + 1]
    IN  IF ckp.model.prefix # s1.model.ddp THEN [s1 EXCEPT !.pc = "error"]
        ELSE LET s2 == [s1 EXCEPT !.model.w = ckp.model.w,
                                  !.optimizer = ckp.optimizer,
                                  !.scheduler = ckp.scheduler]
             IN  IF s2.device = "cpu" THEN s2
                 ELSE IF ckp.scaler = <<>> THEN [s2 EXCEPT !.pc = "error"]
                 ELSE [s2 EXCEPT !.scaler = ckp.scaler[1]]

\* run() 393-402: restore from the bundle ckp.  Loading a state dict whose
\* keys do not match, or reading a missing 'scaler' key, raises.
load_checkpoint(s, ckp) ==
    LET s1 == [s EXCEPT !.epoch = ckp.epoch + 1,
                        !.best_fitness = ckp.best_fitness]
    IN  IF ckp.model.prefix # s1.model.ddp THEN [s1 EXCEPT !.pc = "error"]
        ELSE LET s2 == [s1 EXCEPT !.model.w = ckp.model.w,
                                  !.optimizer = ckp.optimizer,
                                  !.scheduler = ckp.scheduler]
             IN  IF s2.device = "cpu" THEN s2
                 ELSE IF ckp.scaler = <<>> THEN [s2 EXCEPT !.pc = "error"]
                 ELSE [s2 EXCEPT !.scaler = ckp.scaler[1]]

\* What the one-epoch step is handed (run() 437), as far as the curricula decide it.
call_args(s) ==
    [epoch |-> s.epoch,
     momentum |-> s.optimizer.momentum,
     lossfn |-> s.lossfn,
     transforms |-> Steps(s.train_transforms),
     is_mixup |-> s.is_mixup,
     lam |-> s.lam]

\* ------------------------------------------------------------------ actions
Set(r, s) == P' = [P EXCEPT ![r] = s]

\* A file write, for the history.
Event(r, file, epoch, bundle) ==
    [run |-> run, rank |-> r, file |-> file, epoch |-> epoch, bundle |-> bundle]

Frame == UNCHANGED <<cfg, ranks, env, run, resume, last, best, class_indices, fit, calls, writes>>

\* check_cfgs(cfgs), called before the processor is constructed: a failed
\* assertion (or another exception) ends the process.
CheckCfgs(r) ==
    /\ P[r].pc = "check"
    /\ Set(r, [P[r] EXCEPT !.pc = IF check_cfgs(cfg) THEN "new" ELSE "rejected"])
    /\ Frame

\* CenterProcessor(cfgs, rank, project): device (251-254), the two datasets
\* (Datasets.__init__ writes class_indices.json on a coordinating rank), the
\* optimizer, scheduler, loss and strategies.
Construct(r) ==
    /\ P[r].pc = "new"
    /\ \E avail \in env.cuda :
         LET d == IF r # -1 THEN "cuda" ELSE IF avail THEN "cuda" ELSE "cpu"
         IN  Set(r, CenterProcessor(cfg, r, d))
    /\ IF is_coordinator(r)
       THEN /\ class_indices' = <<"val">>
            /\ writes' = writes \o <<Event(r, "class_indices", -1, <<>>),
                                     Event(r, "class_indices", -1, <<>>)>>
       ELSE UNCHANGED <<class_indices, writes>>
    /\ UNCHANGED <<cfg, ranks, env, run, resume, last, best, fit, calls>>

\* run(resume = None) up to the loop: 390-391, 404-405.
Begin(r) ==
    /\ P[r].pc = "start"
    /\ resume = <<>>
    /\ Set(r, [P[r] EXCEPT !.pc = "for", !.best_fitness = 0, !.epoch = 0,
                           !.model = IF r # -1 THEN DDP(@) ELSE @])
    /\ Frame

\* run(resume = path) up to the loop: 390-405.
Resume(r) ==
    /\ P[r].pc = "start"
    /\ resume # <<>>
    /\ LET s == load_checkpoint([P[r] EXCEPT !.pc = "for"], resume[1])
       IN  Set(r, IF s.pc = "error" THEN s
                  ELSE [s EXCEPT !.model = IF r # -1 THEN DDP(@) ELSE @])
    /\ Frame

\* 413: for epoch in range(start_epoch, total_epoch)
ForBody(r) ==
    /\ P[r].pc = "for"
    /\ P[r].epoch < total_epoch(cfg)
    /\ Set(r, [P[r] EXCEPT !.pc = "warm_aug"])
    /\ Frame

ForExit(r) ==
    /\ P[r].pc = "for"
    /\ ~(P[r].epoch < total_epoch(cfg))
    /\ Set(r, [P[r] EXCEPT !.pc = "done"])
    /\ Frame

\* 415-416
WarmAug(r) ==
    /\ P[r].pc = "warm_aug"
    /\ Set(r, [(IF P[r].epoch = 0 THEN set_augment(P[r], "train", NoPipeline) ELSE P[r])
               EXCEPT !.pc = "warm_mom"])
    /\ Frame

\* Mutant of warm_end: the momentum is switched, the train pipeline is not rebuilt.
warm_end_no_restore(s, c) ==
    IF s.epoch = c.warm_ep THEN set_optimizer_momentum(s, "momentum") ELSE s

\* Mutant of warm_end: the switch is taken one epoch late.
warm_end_late(s, c) ==
    IF s.epoch = c.warm_ep + 1
    THEN set_augment([set_optimizer_momentum(s, "momentum") EXCEPT !.next_id = @ + 1],
                     "train", create_AugTransforms(c.train_augs, c.imgsz, s.next_id))
    ELSE s

\* 419-421
warm_end(s, c) ==
    IF s.epoch = c.warm_ep
    THEN set_augment([set_optimizer_momentum(s, "momentum") EXCEPT !.next_id = @ + 1],
                     "train", create_AugTransforms(c.train_augs, c.imgsz, s.next_id))
    ELSE s

\* Mutant of WarmMom: the weak-pipeline override of epoch 0 comes after the
\* restore of epoch warm_ep.
WarmMom_then_weak(r) ==
    /\ P[r].pc = "warm_mom"
    /\ Set(r, [(IF P[r].epoch = 0
                THEN set_augment(warm_end(P[r], cfg), "train", NoPipeline)
                ELSE warm_end(P[r], cfg))
               EXCEPT !.pc = "focal"])
    /\ Frame

WarmMom(r) ==
    /\ P[r].pc = "warm_mom"
    /\ Set(r, [warm_end(P[r], cfg) EXCEPT !.pc = "focal"])
    /\ Frame

\* 424
Focal(r) ==
    /\ P[r].pc = "focal"
    /\ Set(r, [auto_replace_lossfn(P[r], P[r].focal, P[r].epoch - cfg.warm_ep,
                                   P[r].focal_eff_epo, P[r].focal_on)
               EXCEPT !.pc = "weaken"])
    /\ Frame

\* 427
Weaken(r) ==
    /\ P[r].pc = "weaken"
    /\ Set(r, [auto_aug_weaken(P[r], P[r].epoch - cfg.warm_ep, cfg.aug_epoch)
               EXCEPT !.pc = "prog"])
    /\ Frame

\* 430-431
Prog(r) ==
    /\ P[r].pc = "prog"
    /\ Set(r, [(IF cfg.prog_learn
                THEN auto_prog(P[r], P[r].epoch - cfg.warm_ep, cfg.imgsz)
                ELSE P[r])
               EXCEPT !.pc = "mixup"])
    /\ Frame

\* 434
Mixup(r) ==
    /\ P[r].pc = "mixup"
    /\ \E u \in 0..MixDen - 1 :
         LET m == auto_mixup(P[r], cfg.mixup, P[r].epoch - cfg.warm_ep, cfg.milestone, u)
         IN  Set(r, [P[r] EXCEPT !.pc = "train", !.is_mixup = m[1], !.lam = m[2]])
    /\ Frame

\* 437, and the rank test of 439
Train(r) ==
    /\ P[r].pc = "train"
    /\ \E f \in env.fitness :
         /\ (is_coordinator(r) /\ env.seeded /\ fit[P[r].epoch] # -1) => f = fit[P[r].epoch]
         /\ fit' = IF is_coordinator(r) THEN [fit EXCEPT ![P[r].epoch] = f] ELSE fit
         /\ Set(r, IF is_coordinator(r)
                   THEN [train_one_epoch(P[r], f) EXCEPT !.pc = "best"]
                   ELSE [train_one_epoch(P[r], f) EXCEPT !.pc = "for", !.epoch = @ + 1])
    /\ calls' = [calls EXCEPT ![run][r] = Append(@, call_args(P[r]))]
    /\ UNCHANGED <<cfg, ranks, env, run, resume, last, best, class_indices, writes>>

\* 441-442
Best(r) ==
    /\ P[r].pc = "best"
    /\ Set(r, [update_best(P[r]) EXCEPT !.pc = "save_last"])
    /\ Frame

\* 445-457
SaveLast(r) ==
    /\ P[r].pc = "save_last"
    /\ last' = <<ckpt(P[r])>>
    /\ writes' = Append(writes, Event(r, "last", P[r].epoch, <<ckpt(P[r])>>))
    /\ Set(r, [P[r] EXCEPT !.pc = "save_best"])
    /\ UNCHANGED <<cfg, ranks, env, run, resume, best, class_indices, fit, calls>>

\* 458-467, and the loop's increment
SaveBest(r) ==
    /\ P[r].pc = "save_best"
    /\ IF is_best(P[r])
       THEN /\ best' = <<ckpt(P[r])>>
            /\ writes' = Append(writes, Event(r, "best", P[r].epoch, <<ckpt(P[r])>>))
       ELSE UNCHANGED <<best, writes>>
    /\ Set(r, [P[r] EXCEPT !.pc = "for", !.epoch = @ + 1])
    /\ UNCHANGED <<cfg, ranks, env, run, resume, last, class_indices, fit, calls>>

\* The job has completed, or is terminated where it stands, and is started
\* again with resume = a checkpoint file the fresh run wrote (a slot as it is
\* now, or a copy of what a slot held earlier); every process constructs a
\* new CenterProcessor.
Restart ==
    /\ run = "fresh"
    /\ env.kill \/ \A r \in ranks : P[r].pc = "done"
    /\ \E i \in 1..Len(writes) :
         /\ writes[i].bundle # <<>>
         /\ resume' = writes[i].bundle
    /\ run' = "resumed"
    /\ P' = [r \in ranks |-> [pc |-> "new", rank |-> r]]
    /\ UNCHANGED <<cfg, ranks, env, last, best, class_indices, fit, calls, writes>>

Next ==
    \/ \E r \in ranks : Construct(r)
    \/ \E r \in ranks : Begin(r)
    \/ \E r \in ranks : Resume(r)
    \/ \E r \in ranks : ForBody(r)
    \/ \E r \in ranks : ForExit(r)
    \/ \E r \in ranks : WarmAug(r)
    \/ \E r \in ranks : WarmMom(r)
    \/ \E r \in ranks : Focal(r)
    \/ \E r \in ranks : Weaken(r)
    \/ \E r \in ranks : Prog(r)
    \/ \E r \in ranks : Mixup(r)
    \/ \E r \in ranks : Train(r)
    \/ \E r \in ranks : Best(r)
    \/ \E r \in ranks : SaveLast(r)
    \/ \E r \in ranks : SaveBest(r)
    \/ Restart

\* A job whose configuration is checked first.
NextCfgs ==
    \/ \E r \in ranks : CheckCfgs(r)
    \/ Next

\* ------------------------------------------------- the data processor's hooks
\* A caller of the data processor: the hooks are public methods and can be
\* called with any argument.  The last call is kept with the state it found.
Pipelines ==
    {create_AugTransforms(cfg.train_augs, cfg.imgsz, 1),
     create_AugTransforms(cfg.val_augs, cfg.imgsz, 2),
     create_AugTransforms(<<"to_tensor">>, cfg.imgsz, 3)}

Called(r, call) == calls' = [calls EXCEPT ![run][r] = <<[call EXCEPT !.before = P[r]]>>]

HookFrame == UNCHANGED <<cfg, ranks, env, run, resume, last, best, class_indices, fit, writes>>

\* data_processor.set_augment(mode, sequence)
CallSetAugment(r) ==
    /\ P[r].pc = "idle"
    /\ \E mode \in {"train", "val"}, sequence \in Pipelines \cup {NoPipeline} :
         /\ Set(r, set_augment(P[r], mode, sequence))
         /\ Called(r, [op |-> "set_augment", mode |-> mode, sequence |-> sequence,
                       epoch |-> 0, milestone |-> 0, before |-> <<>>])
    /\ HookFrame

\* data_processor.auto_aug_weaken(epoch, milestone)
CallAutoAugWeaken(r) ==
    /\ P[r].pc = "idle"
    /\ \E epoch \in -1..MaxMile, milestone \in -1..MaxMile :
         /\ Set(r, auto_aug_weaken(P[r], epoch, milestone))
         /\ Called(r, [op |-> "auto_aug_weaken", mode |-> "train", sequence |-> NoPipeline,
                       epoch |-> epoch, milestone |-> milestone, before |-> <<>>])
    /\ HookFrame

NextHooks ==
    \/ \E r \in ranks : CallSetAugment(r)
    \/ \E r \in ranks : CallAutoAugWeaken(r)

\* ------------------------------------------------- utils/augment.py: registry
\* The functions of augment.py under @register_method, by __name__, with the
\* number of parameters that have no default (center_crop(size) has one).
Methods ==
    [name \in {"random_cutout", "color_jitter", "random_horizonflip", "random_verticalflip",
               "to_tensor", "normalize", "random_augment", "center_crop", "resize",
               "random_affine"}
        |-> [name |-> name, required |-> IF name = "center_crop" THEN 1 ELSE 0]]

\* A function a caller may register later.
OtherMethods == {[name |-> "mosaic", required |-> n] : n \in 0..1}

\* register_method(fn): raises for a key already present, else adds the entry.
register_method(AUG_METHODS, fn) ==
    IF fn.name \in DOMAIN AUG_METHODS
    THEN [raised |-> "ValueError", AUG_METHODS |-> AUG_METHODS]
    ELSE [raised |-> "None",
          AUG_METHODS |-> [k \in DOMAIN AUG_METHODS \cup {fn.name} |->
                              IF k = fn.name THEN fn ELSE AUG_METHODS[k]]]

\* An augment string is a sequence of names and blanks; augments.strip().split()
\* yields its maximal blank-free runs, each a token (a run of several names is
\* the name they spell together, which no function has).
RECURSIVE split(_)
split(str) ==
    IF str = <<>> THEN <<>>
    ELSE IF Head(str) = " " THEN split(Tail(str))
    ELSE LET rest == split(Tail(str))
         IN  IF Len(str) > 1 /\ str[2] # " "
             THEN <<<<Head(str)>> \o rest[1]>> \o Tail(rest)
             ELSE <<<<Head(str)>>>> \o rest

\* tuple(map(lambda x: AUG_METHODS[x](), augments)): the steps built from
\* token i on, until a lookup or a call raises.
RECURSIVE map_methods(_, _, _)
map_methods(AUG_METHODS, augments, i) ==
    IF i > Len(augments) THEN [raised |-> "None", transforms |-> <<>>]
    ELSE LET x == augments[i]
         IN  IF ~(Len(x) = 1 /\ x[1] \in DOMAIN AUG_METHODS)
             THEN [raised |-> "KeyError", transforms |-> <<>>]
             ELSE IF AUG_METHODS[x[1]].required > 0
             THEN [raised |-> "TypeError", transforms |-> <<>>]
             ELSE LET rest == map_methods(AUG_METHODS, augments, i + 1)
                  IN  IF rest.raised # "None" THEN rest
                      ELSE [raised |-> "None",
                            transforms |-> <<[op |-> AUG_METHODS[x[1]].name]>> \o rest.transforms]

\* create_AugTransforms(augments) of augment.py 130-132.
create_AugTransforms_str(AUG_METHODS, augments) ==
    map_methods(AUG_METHODS, split(augments), 1)

\* The strings a caller may pass: blanks and names (of functions with and
\* without required parameters, registered or not) in any order.
AugStrings ==
    UNION {[1..k -> {"to_tensor", "resize", "center_crop", "mosaic", " "}] : k \in 0..MaxAugs}

\* create_AugTransforms(augments), called with any string.
CallCreateAugTransforms(r) ==
    /\ P[r].pc = "idle"
    /\ \E augments \in AugStrings :
         LET res == create_AugTransforms_str(P[r].AUG_METHODS, augments)
         IN  Set(r, [P[r] EXCEPT !.result =
                        <<[call |-> "create_AugTransforms", arg |-> augments,
                           raised |-> res.raised, transforms |-> res.transforms,
                           before |-> P[r].AUG_METHODS]>>])
    /\ Frame

\* register_method(fn), called with any function.
CallRegisterMethod(r) ==
    /\ P[r].pc = "idle"
    /\ \E fn \in OtherMethods \cup {Methods[k] : k \in DOMAIN Methods} :
         LET res == register_method(P[r].AUG_METHODS, fn)
         IN  Set(r, [P[r] EXCEPT !.AUG_METHODS = res.AUG_METHODS,
                                 !.result =
                        <<[call |-> "register_method", arg |-> <<fn.name>>,
                           raised |-> res.raised, transforms |-> <<>>,
                           before |-> P[r].AUG_METHODS]>>])
    /\ Frame

NextAugment ==
    \/ \E r \in ranks : CallCreateAugTransforms(r)
    \/ \E r \in ranks : CallRegisterMethod(r)

\* ------------------------------------------------ utils/datasets.py: Datasets
\* Entry names are strings, written as their sequences of code points.
Names == {<<1>>, <<1, 2>>, <<2>>}
Extensions == {".jpg", ".png", ".txt"}

\* One entry of os.listdir(src_path): a name, whether it is a directory, and
\* for a directory the extensions of os.listdir of it, in listing order.
Entries ==
    {[name |-> n, isdir |-> d, files |-> f] :
        n \in Names, d \in BOOLEAN, f \in UNION {[1..k -> Extensions] : k \in 0..MaxFiles}}

\* The listings of src_path: distinct names in any order; a plain file lists nothing.
Listings ==
    {l \in UNION {[1..k -> Entries] : k \in 0..MaxClasses} :
        /\ \A i, j \in 1..Len(l) : l[i].name = l[j].name => i = j
        /\ \A i \in 1..Len(l) : ~l[i].isdir => l[i].files = <<>>}

\* a < b for strings
RECURSIVE str_lt(_, _)
str_lt(a, b) ==
    IF b = <<>> THEN FALSE
    ELSE IF a = <<>> THEN TRUE
    ELSE IF Head(a) # Head(b) THEN Head(a) < Head(b)
    ELSE str_lt(Tail(a), Tail(b))

RECURSIVE insert_sorted(_, _)
insert_sorted(x, l) ==
    IF l = <<>> THEN <<x>>
    ELSE IF str_lt(x, Head(l)) THEN <<x>> \o l
    ELSE <<Head(l)>> \o insert_sorted(x, Tail(l))

\* Mutant of sort: the list stays in listing order.
sort_skipped(l) == l

\* data_class.sort()
RECURSIVE sort(_)
sort(l) == IF l = <<>> THEN <<>> ELSE insert_sorted(Head(l), sort(Tail(l)))

\* The entry of the listing with the given name.
entry(listing, cla) == listing[CHOOSE i \in 1..Len(listing) : listing[i].name = cla]

\* datasets.py 30-37 from class i of data_class on: the supported files of
\* each class, in listing order, each with the class's index.
RECURSIVE collect(_, _, _)
collect(listing, data_class, i) ==
    IF i > Len(data_class) THEN <<>>
    ELSE LET files == entry(listing, data_class[i]).files
             images == SelectSeq([k \in 1..Len(files) |->
                                     [cla |-> data_class[i], file |-> k, ext |-> files[k]]],
                                 LAMBDA img : img.ext \in {".jpg", ".png"})
         IN  [k \in 1..Len(images) |-> [path |-> images[k], label |-> i - 1]]
             \o collect(listing, data_class, i + 1)

\* Datasets.__init__ (13-17, 25-43) on the listing of src_path.
Datasets(listing, transforms) ==
    LET dirs == SelectSeq(listing, LAMBDA e : e.isdir)
        data_class == sort([i \in 1..Len(dirs) |-> dirs[i].name])
        collected == collect(listing, data_class, 1)
    IN  [images |-> [k \in 1..Len(collected) |-> collected[k].path],
         labels |-> [k \in 1..Len(collected) |-> collected[k].label],
         transforms |-> transforms,
         class_indices |-> data_class]

\* Datasets.__len__
len(dataset) == Len(dataset.images)

\* Datasets(root, mode, transforms, project = project, rank = rank): the
\* dataset, and on a coordinating rank the write of class_indices.json (18-23).
NewDatasets(r) ==
    /\ P[r].pc = "new"
    /\ LET dataset == Datasets(env.listdir, NoPipeline)
       IN  /\ Set(r, [pc |-> "constructed", rank |-> r, dataset |-> dataset])
           /\ IF is_coordinator(r)
              THEN /\ class_indices' = <<[i \in 1..Len(dataset.class_indices) |->
                                            [index |-> i - 1, name |-> dataset.class_indices[i]]]>>
                   /\ writes' = Append(writes, Event(r, "class_indices", -1, <<>>))
              ELSE UNCHANGED <<class_indices, writes>>
    /\ UNCHANGED <<cfg, ranks, env, run, resume, last, best, fit, calls>>

NextDatasets == \E r \in ranks : NewDatasets(r)

\* ------------------------------------------------------------- SmartModel
\* _Init_Nc_Torchvision.models (106-112)
models ==
    {"mobilenet", "shufflenet", "resnet18", "resnet34", "resnet50", "resnet101",
     "resnet152", "resnext50", "resnext101", "convnext", "efficientnet"}

\* Model names are strings, written as their parts between the '_': one name
\* of every family, one torchvision knows but the families do not hold, and
\* one torchvision does not know.
ModelNames ==
    {<<"mobilenet", "v2">>, <<"shufflenet", "v2", "x1", "0">>, <<"resnet18">>,
     <<"resnet34">>, <<"resnet50">>, <<"resnet101">>, <<"resnet152">>,
     <<"resnext50", "32x4d">>, <<"resnext101", "32x8d">>, <<"convnext", "tiny">>,
     <<"efficientnet", "b0">>, <<"vgg16">>, <<"nonesuch">>}

\* model_cfgs: choice is written as the parts of the string between the '-'.
ModelCfgs ==
    [choice : {<<k, n>> : k \in {"torchvision", "custom"}, n \in ModelNames}
                 \cup {<<n>> : n \in {<<"resnet18">>, <<"mobilenet", "v2">>}},
     num_classes : {2}, pretrained : BOOLEAN, backbone_freeze : BOOLEAN,
     bn_freeze : BOOLEAN, bn_freeze_affine : BOOLEAN]

\* A layer with parameters: its kind, the number of its outputs, where its
\* weights come from, whether its parameters track gradients and whether it
\* is in training mode.
Layer(kind, out, w) ==
    [kind |-> kind, out |-> out, w |-> w, requires_grad |-> TRUE, training |-> TRUE]

\* nn.Linear(in_features, nc)
Linear(nc) == Layer("linear", nc, "default")

\* torchvision.models.get_model(choice, weights): the named children of the
\* network and the layers with parameters each holds.  The residual and
\* shuffle networks end in the single linear layer fc; the others in a
\* sequential classifier whose last layer is linear.
get_model(name, pretrained) ==
    LET w == IF pretrained THEN "weights" ELSE "default"
        body == <<Layer("conv", 8, w), Layer("bn", 8, w)>>
    IN  IF Head(name) \in {"mobilenet", "convnext", "efficientnet", "vgg16"}
        THEN <<[name |-> "features", layers |-> body],
               [name |-> "classifier",
                layers |-> <<Layer("linear", 8, w), Layer("linear", 1000, w)>>]>>
        ELSE <<[name |-> "conv1", layers |-> <<Layer("conv", 8, w)>>],
               [name |-> "bn1", layers |-> <<Layer("bn", 8, w)>>],
               [name |-> "layer1", layers |-> body],
               [name |-> "fc", layers |-> <<Layer("linear", 1000, w)>>]>>

\* getattr(model, attr): the position of the child of that name.
child(model, attr) == CHOOSE i \in 1..Len(model) : model[i].name = attr

\* _Init_Nc_Torchvision.init_nc (114-122)
init_nc(model, choice, nc) ==
    LET model_name == Head(choice)
    IN  IF model_name \notin models THEN [raised |-> "AssertionError", model |-> model]
        ELSE IF model_name \in {"mobilenet", "convnext", "efficientnet"}
        THEN LET c == child(model, "classifier")
                 n == Len(model[c].layers)
             IN  [raised |-> "None",
                  model |-> [model EXCEPT ![c].layers[n] = Linear(nc)]]
        ELSE LET c == child(model, "fc")
             IN  [raised |-> "None",
                  model |-> [model EXCEPT ![c].layers = <<Linear(nc)>>]]

\* p.requires_grad_(False) for every parameter of the children whose name is
\* not in keep.
freeze_except(model, keep) ==
    [i \in 1..Len(model) |->
        IF model[i].name \notin keep
        THEN [model[i] EXCEPT !.layers =
                 [k \in 1..Len(model[i].layers) |->
                     [model[i].layers[k] EXCEPT !.requires_grad = FALSE]]]
        ELSE model[i]]

\* SmartModel.freeze_backbone (174-182) on the processor s: self.model is read,
\* which raises while the attribute has not been assigned.
freeze_backbone(s) ==
    IF s.model_cfgs.choice[1] = "torchvision"
    THEN IF ~s.has_model THEN [s EXCEPT !.raised = "AttributeError"]
         ELSE [s EXCEPT !.model = freeze_except(s.model, {"fc"})]
    ELSE s

\* m.eval(), and the affine parameters frozen on request, for a BatchNorm2d m.
bn_frozen(m, bn_freeze_affine) ==
    IF m.kind = "bn"
    THEN [m EXCEPT !.training = FALSE,
                   !.requires_grad = IF bn_freeze_affine THEN FALSE ELSE m.requires_grad]
    ELSE m

\* SmartModel.freeze_bn (184-190)
freeze_bn(s, bn_freeze_affine) ==
    IF ~s.has_model THEN [s EXCEPT !.raised = "AttributeError"]
    ELSE [s EXCEPT !.model =
            [i \in 1..Len(s.model) |->
                [s.model[i] EXCEPT !.layers =
                    [k \in 1..Len(s.model[i].layers) |->
                        bn_frozen(s.model[i].layers[k], bn_freeze_affine)]]]]

\* SmartModel.create_model (146-159) called on s: what it raises and the
\* value it returns.  The local variable model is bound only for a
\* torchvision model.
create_model(s, choice, num_classes, pretrained, kind, backbone_freeze, bn_freeze, bn_freeze_affine) ==
    LET Raise(e) == [raised |-> e, value |-> <<>>]
        built == IF kind # "torchvision" THEN [raised |-> "None", model |-> <<>>]
                 ELSE IF choice = <<"nonesuch">> THEN [raised |-> "ValueError", model |-> <<>>]
                 ELSE init_nc(get_model(choice, pretrained), choice, num_classes)
        s1 == IF backbone_freeze THEN freeze_backbone(s) ELSE s
        s2 == IF bn_freeze THEN freeze_bn(s1, bn_freeze_affine) ELSE s1
    IN  IF kind \notin {"torchvision", "custom"} THEN Raise("AssertionError")
        ELSE IF built.raised # "None" THEN Raise(built.raised)
        ELSE IF s1.raised # "None" THEN Raise(s1.raised)
        ELSE IF s2.raised # "None" THEN Raise(s2.raised)
        ELSE IF kind # "torchvision" THEN Raise("UnboundLocalError")
        ELSE [raised |-> "None", value |-> built.model]

\* SmartModel.reset_parameters: init_parameters applied to every module (161-172)
reset_parameters(model) ==
    [i \in 1..Len(model) |->
        [model[i] EXCEPT !.layers =
            [k \in 1..Len(model[i].layers) |->
                [model[i].layers[k] EXCEPT !.w = "normal"]]]]

\* SmartModel.__init__ (125-144)
SmartModel(model_cfgs) ==
    LET s == [model_cfgs |-> model_cfgs, raised |-> "None", has_model |-> FALSE,
              model |-> <<>>]
    IN  IF Len(model_cfgs.choice) # 2 THEN [s EXCEPT !.raised = "ValueError"]
        ELSE LET res == create_model(s, model_cfgs.choice[2], model_cfgs.num_classes,
                                     model_cfgs.pretrained, model_cfgs.choice[1],
                                     model_cfgs.backbone_freeze, model_cfgs.bn_freeze,
                                     model_cfgs.bn_freeze_affine)
             IN  IF res.raised # "None" THEN [s EXCEPT !.raised = res.raised]
                 ELSE [s EXCEPT !.has_model = TRUE,
                                !.model = IF model_cfgs.pretrained THEN res.value
                                          ELSE reset_parameters(res.value)]

\* SmartModel(model_cfgs), as CenterProcessor.__init__ 258 constructs it.
NewSmartModel(r) ==
    /\ P[r].pc = "new"
    /\ Set(r, [pc |-> "constructed", rank |-> r, model_processor |-> SmartModel(cfg)])
    /\ Frame

\* model_processor.freeze_backbone(), called on a constructed model processor.
CallFreezeBackbone(r) ==
    /\ P[r].pc = "constructed"
    /\ P[r].model_processor.raised = "None"
    /\ Set(r, [P[r] EXCEPT !.pc = "frozen",
                           !.model_processor = freeze_backbone(P[r].model_processor)])
    /\ Frame

NextModel ==
    \/ \E r \in ranks : NewSmartModel(r)
    \/ \E r \in ranks : CallFreezeBackbone(r)

\* ------------------------------------------------------------ specifications
InitJob(C, R, E) ==
    /\ cfg \in C
    /\ ranks \in R
    /\ env \in E
    /\ run = "fresh"
    /\ resume = <<>>
    /\ P = [r \in ranks |-> [pc |-> "new", rank |-> r]]
    /\ last = <<>>
    /\ best = <<>>
    /\ class_indices = <<>>
    /\ fit = [e \in 0..MaxTotal - 1 |-> -1]
    /\ calls = [x \in Runs |-> [r \in ranks |-> <<>>]]
    /\ writes = <<>>

\* Single-process jobs over the configurations check_cfgs accepts; the job runs
\* to completion and is then run again from any checkpoint it wrote.
Init ==
    InitJob({c \in Configs : check_cfgs(c)}, {{-1}},
            [cuda : {{FALSE}}, fitness : {{1}}, seeded : {TRUE}, kill : {FALSE}])

Spec == Init /\ [][Next]_vars

\* Checkpointing: jobs of one process (rank -1 on the cpu or on an accelerator,
\* or rank 0 under DDP) whose one-epoch step returns any fitness sequence,
\* terminated at any point or left to complete.
InitCkpt ==
    InitJob({BaseCfg(we[1], we[2]) : we \in {<<0, MaxEpochs>>, <<1, MaxEpochs - 1>>}},
            {{-1}, {0}},
            [cuda : {{TRUE, FALSE}}, fitness : {0..MaxFit}, seeded : {TRUE},
             kill : BOOLEAN])

SpecCkpt == InitCkpt /\ [][Next]_vars

\* Single-process jobs with progressive learning, over the accepted
\* configurations of every kind of pipeline.
InitProg ==
    InitJob({c \in ProgCfgs : check_cfgs(c)}, {{-1}},
            [cuda : {{FALSE}}, fitness : {{1}}, seeded : {TRUE}, kill : {FALSE}])

SpecProg == InitProg /\ [][Next]_vars

\* Distributed jobs: NProc processes with ranks 0..NProc-1 in any interleaving.
InitDist ==
    InitJob({BaseCfg(0, 2)}, {0..NProc - 1},
            [cuda : {{TRUE}}, fitness : {0..1}, seeded : {TRUE}, kill : {TRUE}])

SpecDist == InitDist /\ [][Next]_vars

\* Single-process jobs on any configuration, valid or not: check_cfgs, then
\* the run and a rerun from any checkpoint it wrote.
InitCfgs ==
    /\ cfg \in RawCfgs
    /\ ranks = {-1}
    /\ env = [cuda |-> {FALSE}, fitness |-> {1}, seeded |-> TRUE, kill |-> FALSE]
    /\ run = "fresh"
    /\ resume = <<>>
    /\ P = [r \in ranks |-> [pc |-> "check", rank |-> r]]
    /\ last = <<>>
    /\ best = <<>>
    /\ class_indices = <<>>
    /\ fit = [e \in 0..MaxTotal - 1 |-> -1]
    /\ calls = [x \in Runs |-> [r \in ranks |-> <<>>]]
    /\ writes = <<>>

SpecCfgs == InitCfgs /\ [][NextCfgs]_vars

\* A process that has imported utils/augment.py (every decorated function is
\* registered) and calls create_AugTransforms and register_method in any order.
InitAugment ==
    /\ cfg = BaseCfg(0, 1)
    /\ ranks = {-1}
    /\ env = [cuda |-> {FALSE}, fitness |-> {0}, seeded |-> TRUE, kill |-> FALSE]
    /\ run = "fresh"
    /\ resume = <<>>
    /\ P = [r \in ranks |-> [pc |-> "idle", rank |-> r, AUG_METHODS |-> Methods,
                              result |-> <<>>]]
    /\ last = <<>>
    /\ best = <<>>
    /\ class_indices = <<>>
    /\ fit = [e \in 0..MaxTotal - 1 |-> -1]
    /\ calls = [x \in Runs |-> [r \in ranks |-> <<>>]]
    /\ writes = <<>>

SpecAugment == InitAugment /\ [][NextAugment]_vars

\* One dataset constructed over any listing of its split directory.
InitDatasets ==
    /\ cfg = BaseCfg(0, 1)
    /\ ranks \in {{-1}, {1}}
    /\ env \in [listdir : Listings]
    /\ run = "fresh"
    /\ resume = <<>>
    /\ P = [r \in ranks |-> [pc |-> "new", rank |-> r]]
    /\ last = <<>>
    /\ best = <<>>
    /\ class_indices = <<>>
    /\ fit = [e \in 0..MaxTotal - 1 |-> -1]
    /\ calls = [x \in Runs |-> [r \in ranks |-> <<>>]]
    /\ writes = <<>>

SpecDatasets == InitDatasets /\ [][NextDatasets]_vars

\* One model processor constructed from any model section, and its backbone
\* frozen by a later call.
InitModel ==
    /\ cfg \in ModelCfgs
    /\ ranks = {-1}
    /\ env = [cuda |-> {FALSE}, fitness |-> {0}, seeded |-> TRUE, kill |-> FALSE]
    /\ run = "fresh"
    /\ resume = <<>>
    /\ P = [r \in ranks |-> [pc |-> "new", rank |-> r]]
    /\ last = <<>>
    /\ best = <<>>
    /\ class_indices = <<>>
    /\ fit = [e \in 0..MaxTotal - 1 |-> -1]
    /\ calls = [x \in Runs |-> [r \in ranks |-> <<>>]]
    /\ writes = <<>>

SpecModel == InitModel /\ [][NextModel]_vars

\* A constructed processor whose data-processor hooks are called in any order
\* with any arguments.
InitHooks ==
    /\ cfg = BaseCfg(0, 1)
    /\ ranks = {-1}
    /\ env = [cuda |-> {FALSE}, fitness |-> {0}, seeded |-> TRUE, kill |-> FALSE]
    /\ run = "fresh"
    /\ resume = <<>>
    /\ P = [r \in ranks |-> [CenterProcessor(cfg, r, "cpu") EXCEPT !.pc = "idle"]]
    /\ last = <<>>
    /\ best = <<>>
    /\ class_indices = <<>>
    /\ fit = [e \in 0..MaxTotal - 1 |-> -1]
    /\ calls = [x \in Runs |-> [r \in ranks |-> <<>>]]
    /\ writes = <<>>

SpecHooks == InitHooks /\ [][NextHooks]_vars

\* ------------------------------------------------------------------- claims
Started(r) == P[r].pc \notin {"new"}
Running(r) == P[r].pc \notin {"new", "start", "error"}
\* The epoch a run starts at: 0, or the epoch after the checkpoint's.
StartEpoch(x) == IF x = "fresh" \/ resume = <<>> THEN 0 ELSE resume[1].epoch + 1
Rel(e) == e - cfg.warm_ep

\* C1: in a fresh run every one-epoch call of an epoch e < warm_ep is made with
\* the warmup momentum and every call of an epoch e >= warm_ep with the target
\* momentum; the momentum changes only in epoch warm_ep, from the warmup to the
\* target value, and a completed run ends with the target momentum.
C1_CallMomentum ==
    \A r \in ranks : \A i \in 1..Len(calls["fresh"][r]) :
        LET a == calls["fresh"][r][i]
        IN  a.momentum = IF a.epoch < cfg.warm_ep THEN "warmup_momentum" ELSE "momentum"

C1_SwitchStep ==
    \A r \in ranks :
        (run = "fresh" /\ Started(r) /\ Started(r)'
         /\ P[r].optimizer.momentum # P[r].optimizer.momentum')
        => /\ P[r].epoch = cfg.warm_ep
           /\ P[r].optimizer.momentum = "warmup_momentum"
           /\ P[r].optimizer.momentum' = "momentum"

C1_MomentumSchedule ==
    /\ [](C1_CallMomentum)
    /\ [][C1_SwitchStep]_vars
    /\ [](\A r \in ranks : (run = "fresh" /\ P[r].pc = "done")
                              => P[r].optimizer.momentum = "momentum")

C1_Witness ==
    /\ run = "fresh" /\ cfg.warm_ep = 2
    /\ \E r \in ranks : P[r].pc = "done" /\ Len(calls["fresh"][r]) = total_epoch(cfg)

\* C2: every run calls the one-epoch step for consecutive epochs, beginning at
\* its start epoch (0 in a fresh run, k + 1 in a run resumed from the checkpoint
\* of epoch k), and when it has completed it has called it for every epoch up
\* to epochs + warm_ep - 1, each exactly once.
C2_EpochsRun ==
    \A x \in Runs : \A r \in ranks :
        /\ \A i \in 1..Len(calls[x][r]) : calls[x][r][i].epoch = StartEpoch(x) + i - 1
        /\ (run = x /\ P[r].pc = "done")
              => Len(calls[x][r]) = cfg.epochs + cfg.warm_ep - StartEpoch(x)

C2_Witness ==
    /\ run = "resumed" /\ cfg.warm_ep = 2 /\ cfg.epochs = 3
    /\ \E r \in ranks : /\ P[r].pc = "done"
                        /\ Len(calls["fresh"][r]) = 5
                        /\ Len(calls["resumed"][r]) = 3

\* C9: a one-epoch call gets the mixup flag FALSE and no interpolation weight
\* when the mixup ratio is 0 or the relative epoch is outside
\* [milestone start, milestone end), and gets a weight whenever the flag is TRUE.
C9_MixupWindow ==
    \A x \in Runs : \A r \in ranks : \A i \in 1..Len(calls[x][r]) :
        LET a == calls[x][r][i]
        IN  /\ (cfg.mixup = 0 \/ Rel(a.epoch) < cfg.milestone[1]
                   \/ Rel(a.epoch) >= cfg.milestone[2])
                => (~a.is_mixup /\ a.lam = NoLam)
            /\ a.is_mixup => a.lam # NoLam

C9_Witness ==
    /\ cfg.mixup > 0 /\ cfg.mixup < MixDen /\ cfg.warm_ep > 0
    /\ \E r \in ranks : \E i, j, k \in 1..Len(calls["fresh"][r]) :
          /\ calls["fresh"][r][i].is_mixup
          /\ ~calls["fresh"][r][j].is_mixup /\ calls["fresh"][r][j].lam # NoLam
          /\ Rel(calls["fresh"][r][k].epoch) >= cfg.milestone[2]

\* The loss every one-epoch call is made with, when focal loss is enabled.
C10_CallLoss ==
    \A x \in Runs : \A r \in ranks : \A i \in 1..Len(calls[x][r]) :
        LET a == calls[x][r][i]
        IN  a.lossfn = IF cfg.focal_on /\ Rel(a.epoch) >= cfg.focal_eff_epo
                       THEN "focal" ELSE loss_choice(cfg)

\* The step changes the active loss of process r.
C10_Swap(r) == Started(r) /\ Started(r)' /\ P[r].lossfn # P[r].lossfn'

\* The change is the one swap: focal loss is enabled, the swap check was on
\* and is off afterwards, and the configured loss gives way to the focal loss.
C10_SwapOnce(r) ==
    /\ cfg.focal_on /\ P[r].focal_on /\ ~P[r].focal_on'
    /\ P[r].lossfn = loss_choice(cfg) /\ P[r].lossfn' = "focal"

\* C10 as claimed: the loss is the configured one before the effect epoch and
\* the focal loss from it on, and the one swap is made in the epoch whose
\* relative index equals focal_effective_epoch.
C10_SwapAtEffectEpoch ==
    /\ [](C10_CallLoss)
    /\ [][\A r \in ranks :
             C10_Swap(r) => (C10_SwapOnce(r) /\ Rel(P[r].epoch) = cfg.focal_eff_epo)]_vars

\* C10 as amended: the loss is the configured one before the effect epoch and
\* the focal loss from it on; the one swap of a run is made in the first epoch
\* the run executes whose relative index is at least focal_effective_epoch,
\* after which the swap check is off; without focal loss the loss never changes.
C10_SwapFromEffectEpoch ==
    /\ [](C10_CallLoss)
    /\ [][\A r \in ranks :
             C10_Swap(r) => (C10_SwapOnce(r) /\ Rel(P[r].epoch) >= cfg.focal_eff_epo)]_vars

C10_Witness ==
    /\ run = "resumed" /\ cfg.focal_on /\ cfg.focal_eff_epo = 1
    /\ \E r \in ranks :
          /\ Len(calls["resumed"][r]) > 0
          /\ Rel(calls["resumed"][r][1].epoch) > cfg.focal_eff_epo
          /\ calls["resumed"][r][1].lossfn = "focal"
          /\ \E i \in 1..Len(calls["fresh"][r]) : calls["fresh"][r][i].lossfn = "bce"

\* C7: a one-epoch call of a resumed run is made with the same train pipeline
\* (steps and image sizes), the same loss and the same momentum as the call of
\* the fresh run for the same epoch.
C7_ResumeRederives ==
    \A r \in ranks : \A i \in 1..Len(calls["resumed"][r]) :
        \A j \in 1..Len(calls["fresh"][r]) :
            LET a == calls["resumed"][r][i]
                b == calls["fresh"][r][j]
            IN  a.epoch = b.epoch
                => /\ a.transforms = b.transforms
                   /\ a.lossfn = b.lossfn
                   /\ a.momentum = b.momentum

\* The write events of run x to a file, in order.
EventsOf(x, file) == SelectSeq(writes, LAMBDA w : w.run = x /\ w.file = file)
\* Whether run x wrote a file in epoch e.
Wrote(x, file, e) == \E i \in 1..Len(writes) :
    writes[i].run = x /\ writes[i].file = file /\ writes[i].epoch = e
\* The process has finished the checkpoint block of at least one epoch of this run.
AfterEpoch(r) ==
    /\ P[r].pc \in {"for", "warm_aug", "warm_mom", "focal", "weaken", "prog", "mixup",
                    "train", "done"}
    /\ Len(calls[run][r]) > 0

\* The coordinating process r has finished an epoch.
C3_EpochDone(r) == is_coordinator(r) /\ AfterEpoch(r)

\* C3 as claimed: on the coordinating rank the "best" slot is written in an
\* epoch exactly when the epoch's fitness is strictly greater than the best
\* fitness recorded before the epoch.
C3_BestIffStrictlyGreater ==
    \A r \in ranks :
        C3_EpochDone(r)
        => (Wrote(run, "best", P[r].epoch - 1) <=> P[r].fitness > P[r].prev_best)

\* C3 as amended: on the coordinating rank the "best" slot is written in an
\* epoch exactly when the epoch's fitness is greater than or equal to the best
\* fitness recorded before the epoch (a tie overwrites the slot).
C3_BestIffNotBelow ==
    \A r \in ranks :
        C3_EpochDone(r)
        => (Wrote(run, "best", P[r].epoch - 1) <=> P[r].fitness >= P[r].prev_best)

C3_Witness ==
    \E r \in ranks :
        /\ is_coordinator(r) /\ AfterEpoch(r) /\ P[r].epoch = 3
        /\ Wrote(run, "best", 0) /\ ~Wrote(run, "best", 1) /\ Wrote(run, "best", 2)
        /\ P[r].fitness = P[r].prev_best /\ P[r].fitness > 0

C5_OnlyCoordinatorWrites ==
    /\ \A i \in 1..Len(writes) : writes[i].rank \in {-1, 0}
    /\ \A r \in ranks :
          (r >= 1 /\ Running(r))
          => P[r].best_fitness = IF resume = <<>> THEN 0 ELSE resume[1].best_fitness

C5_Witness ==
    /\ run = "resumed" /\ resume[1].best_fitness = 1
    /\ \A r \in ranks : P[r].pc = "done" /\ Len(calls["resumed"][r]) > 0
    /\ Wrote("resumed", "last", 1) /\ Wrote("resumed", "class_indices", -1)

\* The process stands at the loop's head right after the restore.
Restored(r) ==
    run = "resumed" /\ P[r].pc = "for" /\ Len(calls["resumed"][r]) = 0

\* C6: a run resumed from the bundle of epoch k enters the loop at epoch k + 1
\* with the bundle's best_fitness, and the bundle serialized right after the
\* restore has the model, optimizer and scheduler (and, on an accelerator, the
\* scaler) fields of the bundle that was loaded.
C6_RestoreRoundTrip ==
    \A r \in ranks :
        Restored(r)
        => /\ P[r].epoch = resume[1].epoch + 1
           /\ P[r].best_fitness = resume[1].best_fitness
           /\ ckpt(P[r]).model = resume[1].model
           /\ ckpt(P[r]).optimizer = resume[1].optimizer
           /\ ckpt(P[r]).scheduler = resume[1].scheduler
           /\ (P[r].device # "cpu") => ckpt(P[r]).scaler = resume[1].scaler

C6_Witness ==
    \E r \in ranks :
        /\ Restored(r) /\ P[r].device = "cuda"
        /\ resume[1].epoch = 1 /\ resume[1].best_fitness = 2
        /\ resume[1].optimizer.state = 2 /\ resume[1].scaler = <<2>>

\* C8: when the fresh run was left to complete and the one-epoch step returns
\* the same fitness for the same epoch, the resumed run records after every
\* epoch the best_fitness the fresh run recorded after that epoch, and writes
\* the "best" slot in the epochs in which the fresh run wrote it.
C8_SameBestTrajectory ==
    (run = "resumed" /\ ~env.kill /\ env.seeded)
    => /\ \A i \in 1..Len(EventsOf("resumed", "last")) :
             \E j \in 1..Len(EventsOf("fresh", "last")) :
                LET a == EventsOf("resumed", "last")[i]
                    b == EventsOf("fresh", "last")[j]
                IN  a.epoch = b.epoch
                    /\ a.bundle[1].best_fitness = b.bundle[1].best_fitness
       /\ \A r \in ranks : \A e \in 0..MaxTotal :
             (is_coordinator(r) /\ Running(r) /\ e > resume[1].epoch /\ e < P[r].epoch)
             => (Wrote("resumed", "best", e) <=> Wrote("fresh", "best", e))

C8_Witness ==
    /\ run = "resumed" /\ ~env.kill /\ env.seeded
    /\ resume[1].epoch = 0 /\ resume[1].best_fitness = 1
    /\ \E r \in ranks : P[r].pc = "done" /\ P[r].best_fitness = 2
    /\ Wrote("resumed", "best", 2) /\ ~Wrote("resumed", "best", 1)

\* The process is about to call the one-epoch step of an epoch of a fresh run
\* that has warmup epochs.
C11_AtCall(r) == run = "fresh" /\ cfg.warm_ep > 0 /\ P[r].pc = "train"

\* The pipeline object was built after construction: it is neither the
\* pipeline the train dataset nor the one the val dataset was constructed with.
C11_Fresh(p) == p.id \notin {0, 1, 2}

\* The steps of the full configured train pipeline.
C11_Full == Steps(create_AugTransforms(cfg.train_augs, cfg.imgsz, 0))

\* C11 as claimed: in a fresh run with warm_ep > 0 the one-epoch step of every
\* epoch e < warm_ep is called with the train pipeline being the val pipeline,
\* and the one-epoch step of epoch warm_ep is called with a freshly built full
\* configured train pipeline, unless the weaken milestone is that epoch.
C11_WarmupPipeline ==
    \A r \in ranks :
        C11_AtCall(r)
        => /\ P[r].epoch < cfg.warm_ep => P[r].train_transforms = P[r].val_transforms
           /\ (P[r].epoch = cfg.warm_ep /\ cfg.aug_epoch # 0)
                 => /\ C11_Fresh(P[r].train_transforms)
                    /\ Steps(P[r].train_transforms) = C11_Full

\* C11 as amended: in a fresh run with warm_ep > 0 the one-epoch step of every
\* epoch e < warm_ep is called with the train pipeline being the val pipeline,
\* unless progressive learning is on with a negative mixup milestone start; the
\* one-epoch step of epoch warm_ep is called, unless the weaken milestone is
\* that epoch, with a freshly built pipeline: the full configured train
\* pipeline without progressive learning and, with it, what auto_prog makes of
\* that pipeline for the first progressive size (half the image size).
C11_WarmupPipelineProg ==
    \A r \in ranks :
        C11_AtCall(r)
        => /\ (P[r].epoch < cfg.warm_ep /\ ~(cfg.prog_learn /\ cfg.milestone[1] < 0))
                 => P[r].train_transforms = P[r].val_transforms
           /\ (P[r].epoch = cfg.warm_ep /\ cfg.aug_epoch # 0)
                 => /\ C11_Fresh(P[r].train_transforms)
                    /\ Steps(P[r].train_transforms)
                       = IF cfg.prog_learn
                         THEN prog_sequence(C11_Full, 1, linspace3(cfg.imgsz \div 2, cfg.imgsz)[1])
                         ELSE C11_Full

\* Progressive learning is on and the run is at the call of epoch warm_ep,
\* after the warmup epochs were called with the val pipeline.
C11_Witness ==
    \E r \in ranks :
        /\ C11_AtCall(r) /\ cfg.prog_learn /\ cfg.aug_epoch # 0
        /\ P[r].epoch = cfg.warm_ep /\ cfg.warm_ep = 2
        /\ Len(calls["fresh"][r]) = 2
        /\ calls["fresh"][r][1].transforms = Steps(P[r].val_transforms)
        /\ Steps(P[r].train_transforms) # C11_Full

\* The fields of a processor other than the pipeline of the split `mode`.
C12_OtherFields(s, mode) ==
    DOMAIN s \ {IF mode = "train" THEN "train_transforms" ELSE "val_transforms"}

\* The pipeline of the split `mode`.
C12_PipelineOf(s, mode) ==
    IF mode = "train" THEN s.train_transforms ELSE s.val_transforms

\* C12: auto_aug_weaken(epoch, milestone) with epoch = milestone leaves the
\* train pipeline equal to the val pipeline it found and nothing else changed,
\* and with epoch # milestone changes nothing; set_augment(split, None) leaves
\* the split's pipeline equal to the val pipeline it found and
\* set_augment(split, p) leaves it equal to p, and neither changes the other
\* split's pipeline or anything else.
C12_HookFrame ==
    \A r \in ranks :
        calls[run][r] # <<>>
        => LET c == calls[run][r][1]
               b == c.before
           IN  /\ c.op = "auto_aug_weaken"
                     => IF c.epoch = c.milestone
                        THEN /\ P[r].train_transforms = b.val_transforms
                             /\ \A f \in C12_OtherFields(b, "train") : P[r][f] = b[f]
                        ELSE P[r] = b
               /\ c.op = "set_augment"
                     => /\ C12_PipelineOf(P[r], c.mode)
                             = IF c.sequence = NoPipeline THEN b.val_transforms ELSE c.sequence
                        /\ \A f \in C12_OtherFields(b, c.mode) : P[r][f] = b[f]
                        /\ DOMAIN P[r] = DOMAIN b

\* The val pipeline was replaced, and a weaken call at its milestone then made
\* the train pipeline that pipeline.
C12_Witness ==
    \E r \in ranks :
        /\ calls[run][r] # <<>>
        /\ calls[run][r][1].op = "auto_aug_weaken"
        /\ calls[run][r][1].epoch = calls[run][r][1].milestone
        /\ calls[run][r][1].before.train_transforms.id = 1
        /\ calls[run][r][1].before.val_transforms.id = 3
        /\ P[r].train_transforms.id = 3

\* check_cfgs has returned for the job's configuration without raising.
Accepted == \A r \in ranks : P[r].pc \notin {"check", "rejected"}
\* check_cfgs has raised.
Rejected == \A r \in ranks : P[r].pc = "rejected"
Checked == Accepted \/ Rejected

\* C13: check_cfgs rejects every configuration whose train tokens contain both
\* center_crop and resize, every configuration in which center_crop or resize
\* is among the train tokens and not among the val tokens, and every
\* configuration with a size-changing token among the train tokens whose val
\* token list is not the list of the last Len(val) train tokens.
C13_AugmentRejected ==
    LET t == cfg.train_augs
        v == cfg.val_augs
    IN  (Checked /\
         \/ (Has(t, "center_crop") /\ Has(t, "resize"))
         \/ (Has(t, "center_crop") /\ ~Has(v, "center_crop"))
         \/ (Has(t, "resize") /\ ~Has(v, "resize"))
         \/ /\ (Has(t, "center_crop") \/ Has(t, "resize"))
            /\ ~(Len(v) <= Len(t) /\ \A i \in 1..Len(v) : v[i] = t[Len(t) - Len(v) + i]))
        => Rejected

\* A configuration with resize in both lists and a val list that is not the
\* tail of the train list was rejected, and the lists differ from the base ones.
C13_Witness ==
    /\ Rejected
    /\ cfg.train_augs = <<"resize", "random_horizonflip">>
    /\ cfg.val_augs = <<"resize">>

\* C14: check_cfgs rejects every configuration whose warm_ep is negative, is
\* not an int or is not smaller than epochs; an accepted configuration has a
\* scheduler in {linear, cosine} exactly when warm_ep = 0 and one in
\* {linear_with_warm, cosine_with_warm} exactly when warm_ep > 0; and the
\* completed fresh run of an accepted configuration has called the one-epoch
\* step at least once.
C14_WarmupChecked ==
    /\ (Checked /\ (cfg.warm_ep < 0 \/ ~cfg.warm_is_int \/ cfg.warm_ep >= cfg.epochs))
          => Rejected
    /\ Accepted
          => /\ cfg.scheduler \in {"linear", "cosine"} <=> cfg.warm_ep = 0
             /\ cfg.scheduler \in {"linear_with_warm", "cosine_with_warm"} <=> cfg.warm_ep > 0
             /\ total_epoch(cfg) >= 1
    /\ \A r \in ranks :
          (run = "fresh" /\ P[r].pc = "done") => Len(calls["fresh"][r]) >= 1

\* A configuration with warmup epochs and a warmup scheduler was accepted and
\* its fresh run has completed.
C14_Witness ==
    /\ Accepted /\ run = "fresh"
    /\ cfg.warm_ep = 2 /\ cfg.scheduler = "linear_with_warm"
    /\ \E r \in ranks : P[r].pc = "done" /\ Len(calls["fresh"][r]) = 5

\* The mixup strategy of the claim: a ratio in [0, 1], a milestone that is a
\* list of exactly two ints [start, end] with start < end and, with
\* progressive learning, a ratio > 0 and aug_epoch >= end.
C15_Valid ==
    /\ cfg.mixup >= 0 /\ cfg.mixup <= MixDen
    /\ cfg.milestone_is_list /\ cfg.milestone_ints
    /\ Len(cfg.milestone) = 2
    /\ cfg.milestone[1] < cfg.milestone[2]
    /\ cfg.prog_learn => (cfg.mixup > 0 /\ cfg.aug_epoch >= cfg.milestone[2])

\* C15: check_cfgs accepts a configuration only if its mixup strategy is valid
\* in the sense above; every other one is rejected, and a rejected job never
\* constructs a processor or calls the one-epoch step.
C15_MixupChecked ==
    /\ Accepted => C15_Valid
    /\ (Checked /\ ~C15_Valid) => Rejected
    /\ Rejected => /\ writes = <<>>
                   /\ \A x \in Runs : \A r \in ranks : calls[x][r] = <<>>

\* Progressive learning with aug_epoch equal to the milestone end and a
\* negative milestone start was accepted and the run is in its loop.
C15_Witness ==
    /\ Accepted /\ cfg.prog_learn /\ cfg.mixup = 1
    /\ cfg.milestone = <<-1, 1>> /\ cfg.aug_epoch = 1
    /\ \E r \in ranks : P[r].pc = "train" /\ P[r].epoch = 1

\* C16: check_cfgs accepts a configuration only if exactly one of the loss
\* flags ce and bce is set, and rejects every configuration that enables focal
\* loss while the selected loss is not bce; every one-epoch call of a run is
\* made with a loss that is not None.
C16_LossChecked ==
    /\ Accepted => (cfg.loss.ce /\ ~cfg.loss.bce) \/ (cfg.loss.bce /\ ~cfg.loss.ce)
    /\ (Checked /\ cfg.focal_on /\ loss_choice(cfg) # "bce") => Rejected
    /\ \A x \in Runs : \A r \in ranks : \A i \in 1..Len(calls[x][r]) :
          calls[x][r][i].lossfn # "None"

\* Focal loss on bce was accepted, and the run called the one-epoch step with
\* bce before the effect epoch and with the focal loss from it on.
C16_Witness ==
    /\ Accepted /\ cfg.focal_on /\ cfg.loss.bce /\ cfg.focal_eff_epo = 1
    /\ \E r \in ranks : \E i, j \in 1..Len(calls["fresh"][r]) :
          /\ calls["fresh"][r][i].lossfn = "bce"
          /\ calls["fresh"][r][j].lossfn = "focal"

\* The number of times the process of rank r wrote class_indices.json in run x.
C17_Exports(x, r) ==
    Cardinality({i \in 1..Len(writes) :
                    writes[i].run = x /\ writes[i].rank = r /\ writes[i].file = "class_indices"})

\* C17: once a process has constructed its processor (and with it the data
\* processor with the train and the val dataset), it has written the
\* class-index file exactly once if its rank is -1 or 0 and not at all otherwise.
C17_ClassIndexOnce ==
    \A r \in ranks :
        Started(r) => C17_Exports(run, r) = IF is_coordinator(r) THEN 1 ELSE 0

\* The token is the name of a registered function.
C18_Registered(AUG_METHODS, x) == Len(x) = 1 /\ x[1] \in DOMAIN AUG_METHODS

\* C18: create_AugTransforms on a string whose tokens are all registered names
\* returns a pipeline with one step per token, in the tokens' order, each
\* built by the registry entry of the token's name; on a string with a token
\* that is not registered it raises a lookup error and returns no pipeline; the
\* call leaves the registry as it was; and register_method raises for a name
\* that is already registered.
C18_BuildOrLookupError ==
    \A r \in ranks :
        P[r].result # <<>>
        => LET c == P[r].result[1]
               toks == split(c.arg)
           IN  /\ c.call = "create_AugTransforms"
                     => /\ IF \A i \in 1..Len(toks) : C18_Registered(c.before, toks[i])
                           THEN /\ c.raised = "None"
                                /\ Len(c.transforms) = Len(toks)
                                /\ \A i \in 1..Len(toks) :
                                      c.transforms[i].op = c.before[toks[i][1]].name
                           ELSE c.raised = "KeyError" /\ c.transforms = <<>>
                        /\ P[r].AUG_METHODS = c.before
               /\ (c.call = "register_method" /\ c.arg[1] \in DOMAIN c.before)
                     => c.raised = "ValueError" /\ P[r].AUG_METHODS = c.before

\* The names of the class subdirectories of the listing.
C19_Classes == {env.listdir[i].name : i \in {j \in 1..Len(env.listdir) : env.listdir[j].isdir}}

\* The position of a class in the sorted list of the class names: the number
\* of class names before it.
C19_Position(cla) == Cardinality({d \in C19_Classes : str_lt(d, cla)})

\* The files of the class subdirectories with extension .jpg or .png.
C19_ImageFiles ==
    {[cla |-> env.listdir[i].name, file |-> k, ext |-> env.listdir[i].files[k]] :
        <<i, k>> \in {ik \in (1..Len(env.listdir)) \X (1..MaxFiles) :
                        /\ env.listdir[ik[1]].isdir
                        /\ ik[2] <= Len(env.listdir[ik[1]].files)
                        /\ env.listdir[ik[1]].files[ik[2]] \in {".jpg", ".png"}}}

\* C19: whatever the class subdirectories and the order of the listing, the
\* dataset's class i (0-based) is the class at position i of the sorted names,
\* the collected images are exactly the .jpg and .png files of the class
\* subdirectories, each once and labelled with the position of its class, and
\* the length is the number of those files.
C19_SortedClassIndex ==
    \A r \in ranks :
        P[r].pc = "constructed"
        => LET d == P[r].dataset
           IN  /\ Len(d.class_indices) = Cardinality(C19_Classes)
               /\ \A i \in 1..Len(d.class_indices) :
                     /\ d.class_indices[i] \in C19_Classes
                     /\ C19_Position(d.class_indices[i]) = i - 1
               /\ {d.images[k] : k \in 1..Len(d.images)} = C19_ImageFiles
               /\ Len(d.images) = Cardinality(C19_ImageFiles)
               /\ Len(d.labels) = Len(d.images)
               /\ \A k \in 1..Len(d.images) : d.labels[k] = C19_Position(d.images[k].cla)
               /\ len(d) = Cardinality(C19_ImageFiles)

\* Two classes listed in descending order, the one that sorts first with a
\* file that is no image and the other with an image.
C19_Witness ==
    \E r \in ranks :
        /\ P[r].pc = "constructed"
        /\ Len(env.listdir) = 2
        /\ env.listdir[1].isdir /\ env.listdir[2].isdir
        /\ str_lt(env.listdir[2].name, env.listdir[1].name)
        /\ env.listdir[2].files = <<".txt">>
        /\ env.listdir[1].files = <<".png">>
        /\ P[r].dataset.labels = <<1>>

\* The positions of a process in the loop body, in the order of the claim:
\* loop head, (1) weak override, (2) momentum switch and restore, (3) loss
\* swap, (4) weaken, (5) progressive learning, (6) mixup, (7) the one-epoch
\* step, (8) best-fitness update and the two checkpoint writes.
C20_Stage(pc) ==
    CASE pc = "for" -> 0 [] pc = "warm_aug" -> 1 [] pc = "warm_mom" -> 2
      [] pc = "focal" -> 3 [] pc = "weaken" -> 4 [] pc = "prog" -> 5
      [] pc = "mixup" -> 6 [] pc = "train" -> 7 [] pc = "best" -> 8
      [] pc = "save_last" -> 9 [] pc = "save_best" -> 10 [] OTHER -> -1

\* A step inside the loop moves to the next position, or from the last
\* position of the epoch (the one-epoch step on a rank that writes nothing)
\* back to the loop head with the epoch advanced.
C20_Order(r) ==
    (C20_Stage(P[r].pc) >= 0 /\ C20_Stage(P[r].pc') >= 0 /\ P[r].pc' # P[r].pc)
    => \/ /\ C20_Stage(P[r].pc') = C20_Stage(P[r].pc) + 1
          /\ P[r].epoch' = P[r].epoch
       \/ /\ P[r].pc' = "for" /\ P[r].epoch' = P[r].epoch + 1
          /\ P[r].pc = IF is_coordinator(r) THEN "save_best" ELSE "train"

\* What the one-epoch step of a fresh run's epoch is called with where two
\* steps of the epoch act on the same state: the later one decides.
C20_Observed(r) ==
    LET s == P[r]
        e == s.epoch
        full == Steps(create_AugTransforms(cfg.train_augs, cfg.imgsz, 0))
        half == linspace3(cfg.imgsz \div 2, cfg.imgsz)[1]
    IN  (run = "fresh" /\ s.pc = "train")
        => \* (2) after (1)
           /\ (e = 0 /\ cfg.warm_ep = 0 /\ cfg.aug_epoch # 0 /\ ~cfg.prog_learn)
                 => Steps(s.train_transforms) = full
           /\ e >= cfg.warm_ep => s.optimizer.momentum = "momentum"
           \* (3) before (7)
           /\ (cfg.focal_on /\ Rel(e) >= cfg.focal_eff_epo) => s.lossfn = "focal"
           \* (4) after (2)
           /\ (e = cfg.warm_ep /\ cfg.aug_epoch = 0 /\ ~cfg.prog_learn)
                 => s.train_transforms = s.val_transforms
           \* (5) after (4) and after (2)
           /\ (e = cfg.warm_ep /\ cfg.prog_learn)
                 => Steps(s.train_transforms)
                    = prog_sequence(IF cfg.aug_epoch = 0 THEN Steps(s.val_transforms) ELSE full,
                                    1, half)
           \* (6) after (5), before (7)
           /\ (cfg.mixup > 0 /\ Rel(e) >= cfg.milestone[1] /\ Rel(e) < cfg.milestone[2])
                 => s.lam = IF cfg.prog_learn /\ Rel(e) >= s.mixup_chnodes[2]
                                /\ s.mixup_chnodes[2] # s.mixup_chnodes[1]
                            THEN 2 ELSE 1
           /\ ~(cfg.mixup > 0 /\ Rel(e) >= cfg.milestone[1] /\ Rel(e) < cfg.milestone[2])
                 => s.lam = NoLam

\* (8) after (7): a checkpoint of epoch e is written by a process that has
\* called the one-epoch step of epoch e, and holds the model and the best
\* fitness as they are after that call.
C20_Saved ==
    \A i \in 1..Len(writes) :
        writes[i].file \in {"last", "best"}
        => /\ \E j \in 1..Len(calls[writes[i].run][writes[i].rank]) :
                 calls[writes[i].run][writes[i].rank][j].epoch = writes[i].epoch
           /\ writes[i].bundle[1].epoch = writes[i].epoch
           /\ writes[i].bundle[1].model.w = writes[i].epoch + 1
           /\ writes[i].bundle[1].best_fitness >= fit[writes[i].epoch]
           /\ fit[writes[i].epoch] # -1

\* C20: within every epoch the steps are taken in the order (1) weak-pipeline
\* override, (2) momentum switch and full-pipeline restore, (3) loss swap,
\* (4) weaken, (5) progressive learning, (6) mixup decision, (7) one-epoch
\* step, (8) best-fitness update and checkpoint writes; the one-epoch step of
\* an epoch is called with the outcome of all of that epoch's curriculum
\* steps, and the checkpoint of an epoch is written after its one-epoch step.
C20_StepOrder ==
    /\ [][\A r \in ranks : C20_Order(r)]_vars
    /\ [](\A r \in ranks : C20_Observed(r))
    /\ [](C20_Saved)

\* Progressive learning with the weaken milestone at relative epoch 0 after a
\* warmup: in epoch warm_ep the restore, the weaken step and the rewrite all
\* act on the train pipeline, and the epoch's checkpoint has been written.
C20_Witness ==
    /\ run = "fresh" /\ cfg.prog_learn /\ cfg.aug_epoch = 0 /\ cfg.warm_ep = 1
    /\ \E r \in ranks :
          /\ P[r].pc = "for" /\ P[r].epoch = 2
          /\ calls["fresh"][r][1].lam # NoLam
          /\ calls["fresh"][r][2].lam = NoLam
          /\ calls["fresh"][r][2].transforms # Steps(P[r].val_transforms)
    /\ Wrote("fresh", "last", 1)

\* The image size the train pipeline handed to a one-epoch call resizes to.
C21_Size(a) ==
    a.transforms[CHOOSE i \in 1..Len(a.transforms) : a.transforms[i].op = "resize"].size

\* The three sizes from int(0.5 * min_imgsz) to int(min_imgsz), and the three
\* change nodes over [milestone_start, milestone_end].
C21_Sizes == <<cfg.imgsz \div 2, ((cfg.imgsz \div 2) + cfg.imgsz) \div 2, cfg.imgsz>>
C21_Nodes == linspace3(cfg.milestone[1], cfg.milestone[2])

\* The fresh run of process r has made the one-epoch call of relative epoch e.
C21_Ran(r, e) == \E i \in 1..Len(calls["fresh"][r]) : Rel(calls["fresh"][r][i].epoch) = e

\* C21: with progressive learning on an accepted configuration whose change
\* nodes are c0 < c1, in a fresh run the sizes are s0 <= s1 <= s2 and the
\* one-epoch call of relative epoch 0 resizes to s0, that of relative epoch c0
\* to s1 and that of relative epoch c1 to s2; once the run has made the calls
\* of the relative epochs 0, c0 and c1, each of the three sizes has been
\* applied, in this order; and from relative epoch 0 on the size never
\* decreases from one call to the next.
C21_SizeSchedule ==
    (cfg.prog_learn /\ check_cfgs(cfg) /\ C21_Nodes[1] < C21_Nodes[2])
    => LET s == C21_Sizes
           c == C21_Nodes
       IN  /\ s[1] <= s[2] /\ s[2] <= s[3]
           /\ \A r \in ranks :
                LET h == calls["fresh"][r]
                IN  /\ \A i \in 1..Len(h) :
                          /\ Rel(h[i].epoch) = 0 => C21_Size(h[i]) = s[1]
                          /\ Rel(h[i].epoch) = c[1] => C21_Size(h[i]) = s[2]
                          /\ Rel(h[i].epoch) = c[2] => C21_Size(h[i]) = s[3]
                    /\ (C21_Ran(r, 0) /\ C21_Ran(r, c[1]) /\ C21_Ran(r, c[2]))
                          => \E i, j, k \in 1..Len(h) :
                                /\ i < j /\ j < k
                                /\ C21_Size(h[i]) = s[1]
                                /\ C21_Size(h[j]) = s[2]
                                /\ C21_Size(h[k]) = s[3]
                    /\ \A i \in 1..Len(h) - 1 :
                          Rel(h[i].epoch) >= 0 => C21_Size(h[i]) <= C21_Size(h[i + 1])

\* The step of process r is the progressive-learning step of an epoch (430-431
\* with progressive learning on).
C22_ProgStep(r) ==
    Started(r) /\ cfg.prog_learn /\ P[r].pc = "prog" /\ P'[r].pc = "mixup"

\* The relative epoch is neither 0 nor a change node.
C22_OffNode(r) ==
    /\ Rel(P[r].epoch) # 0
    /\ \A k \in 1..Len(P[r].mixup_chnodes) : Rel(P[r].epoch) # P[r].mixup_chnodes[k]

\* In an epoch off the nodes the step leaves the train pipeline as it is.
C22_Idle(r) ==
    C22_OffNode(r) => P'[r].train_transforms = P[r].train_transforms

\* Step a is step b but for the target size of a resize or of the resize
\* sub-step of a combined step.
C22_SameButSize(a, b) ==
    /\ a.op = b.op
    /\ IF b.op = "resize" THEN TRUE
       ELSE IF b.op = "centercrop_resize" THEN a.size = b.size /\ a.obj = b.obj
       ELSE a = b

\* C22 as claimed: the progressive-learning rewrite leaves the train pipeline
\* with the same number of steps, every step in its position and the same but
\* for the target size of a resize step or resize sub-step; in an epoch whose
\* relative index is neither 0 nor a change node the pipeline is not changed.
C22_OnlySizesDiffer ==
    [][\A r \in ranks :
          C22_ProgStep(r)
          => LET b == P[r].train_transforms.transforms
                 a == P'[r].train_transforms.transforms
             IN  /\ Len(a) = Len(b)
                 /\ \A i \in 1..Len(b) : C22_SameButSize(a[i], b[i])
                 /\ C22_Idle(r)]_vars

\* The steps of t that are not resize steps, a combined step without the size
\* of its resize sub-step.
C22_Others(t) ==
    LET o == SelectSeq(t, LAMBDA m : m.op # "resize")
    IN  [i \in 1..Len(o) |->
            IF o[i].op = "centercrop_resize" THEN [o[i] EXCEPT !.resize = 0] ELSE o[i]]

\* The crop steps of t that a step other than a resize follows.
C22_BareCrops(t) ==
    {i \in 1..Len(t) - 1 : t[i].op = "center_crop" /\ t[i + 1].op # "resize"}

\* C22 as amended: the rewrite keeps every step that is not a resize step, in
\* the same order and untouched but for the resize sub-step of a combined
\* step; it inserts a resize step after every crop step that a step other than
\* a resize follows (the pipeline grows by these steps and by nothing else);
\* all resize steps and resize sub-steps of the rewritten pipeline have one of
\* the three sizes of the schedule, the same for all; in an epoch whose
\* relative index is neither 0 nor a change node the pipeline is not changed.
C22_RewriteKeepsOthers ==
    [][\A r \in ranks :
          C22_ProgStep(r)
          => LET b == P[r].train_transforms.transforms
                 a == P'[r].train_transforms.transforms
             IN  /\ C22_Others(a) = C22_Others(b)
                 /\ ~C22_OffNode(r)
                       => /\ Len(a) = Len(b) + Cardinality(C22_BareCrops(b))
                          /\ C22_BareCrops(a) = {}
                          /\ \E k \in 1..3 : \A i \in 1..Len(a) :
                                /\ a[i].op = "resize" => a[i].size = C21_Sizes[k]
                                /\ a[i].op = "centercrop_resize"
                                      => a[i].resize = C21_Sizes[k]
                 /\ C22_Idle(r)]_vars

\* A rewrite has inserted a resize step of the middle size after the crop step
\* of a three-step train pipeline.
C22_Witness ==
    \E r \in ranks :
        /\ Started(r) /\ P[r].pc = "mixup"
        /\ cfg.train_augs = <<"random_horizonflip", "center_crop", "to_tensor">>
        /\ LET a == P[r].train_transforms.transforms
           IN  /\ Len(a) = 4
               /\ a[2].op = "center_crop" /\ a[3] = Resize(C21_Sizes[2])
               /\ a[4].op = "to_tensor"

\* C23: in a fresh run on an accepted configuration, at the one-epoch step of
\* every epoch e with e - warm_ep >= aug_epoch the train dataset's pipeline is
\* the canonical weak pipeline, the validation dataset's pipeline.
C23_WeakenFinal ==
    \A r \in ranks :
        (run = "fresh" /\ check_cfgs(cfg) /\ P[r].pc = "train"
         /\ Rel(P[r].epoch) >= cfg.aug_epoch)
        => P[r].train_transforms = P[r].val_transforms

\* The model section asks for a frozen backbone of a supported torchvision
\* architecture.
C24_FreezeRequested ==
    /\ Len(cfg.choice) = 2 /\ cfg.choice[1] = "torchvision"
    /\ Head(cfg.choice[2]) \in models
    /\ cfg.backbone_freeze /\ ~cfg.bn_freeze

\* Child i, layer k of the model is its final classification layer: the layer
\* of fc, or the last layer of the sequential classifier.
C24_IsHead(model, i, k) ==
    \/ model[i].name = "fc"
    \/ model[i].name = "classifier" /\ k = Len(model[i].layers)

\* C24: when backbone freeze is requested for a supported architecture,
\* building the model succeeds, and afterwards gradient tracking is disabled
\* on every parameter but those of the final classification layer, which
\* stay trainable.
C24_BackboneFrozen ==
    \A r \in ranks :
        (C24_FreezeRequested /\ P[r].pc = "constructed")
        => LET mp == P[r].model_processor
           IN  /\ mp.raised = "None"
               /\ \A i \in 1..Len(mp.model) : \A k \in 1..Len(mp.model[i].layers) :
                     mp.model[i].layers[k].requires_grad <=> C24_IsHead(mp.model, i, k)

\* The same of a model processor whose backbone was frozen by a call of
\* freeze_backbone after it was built (without the freeze flags).
C24_FrozenByCall ==
    \A r \in ranks :
        (P[r].pc = "frozen" /\ cfg.choice[1] = "torchvision")
        => LET mp == P[r].model_processor
           IN  /\ mp.raised = "None"
               /\ \A i \in 1..Len(mp.model) : \A k \in 1..Len(mp.model[i].layers) :
                     mp.model[i].layers[k].requires_grad <=> C24_IsHead(mp.model, i, k)

\* C25: on an accepted configuration the validation dataset's pipeline is, in
\* every epoch of a run, the object the data processor was constructed with,
\* and each of its steps (the target sizes included) is as constructed.
C25_ValUntouched ==
    \A r \in ranks :
        (Started(r) /\ check_cfgs(cfg))
        => P[r].val_transforms = create_AugTransforms(cfg.val_augs, cfg.imgsz, 2)

\* The greatest element of a set of numbers.
C26_Max(S) == CHOOSE x \in S : \A y \in S : y <= x

\* The best_fitness a run starts with: 0, or the checkpoint's.
C26_Start == IF resume = <<>> THEN 0 ELSE resume[1].best_fitness

\* The fitness values the one-epoch step has returned to the coordinating
\* process r in this run, once the epochs before P[r].epoch are completed.
C26_Returned(r) == {fit[e] : e \in StartEpoch(run)..P[r].epoch - 1}

\* The "best" slot has been written during this run.
C26_BestWritten == \E i \in 1..Len(writes) : writes[i].run = run /\ writes[i].file = "best"

\* The process is inside the checkpoint block of an epoch, between the update
\* of best_fitness (441-442) and the end of the saves (459).
C26_Saving(r) == P[r].pc \in {"save_last", "save_best"}

\* C26: on the coordinating rank best_fitness never decreases during a run;
\* after every epoch it is the maximum of its starting value (0, or the
\* checkpoint's on resume) and all fitness values returned so far; once the
\* "best" slot has been written during the run, the best_fitness stored in it
\* is, outside the checkpoint block, the current best_fitness, and the
\* best_fitness stored in the "last" slot is never smaller than the one stored
\* in the "best" slot.
C26_BestFitness ==
    /\ [][\A r \in ranks :
             (is_coordinator(r) /\ Running(r) /\ Running(r)' /\ run' = run)
             => P'[r].best_fitness >= P[r].best_fitness]_vars
    /\ [](\A r \in ranks :
             (is_coordinator(r) /\ AfterEpoch(r))
             => P[r].best_fitness = C26_Max({C26_Start} \cup C26_Returned(r)))
    /\ [](\A r \in ranks :
             (is_coordinator(r) /\ Running(r) /\ C26_BestWritten)
             => /\ ~C26_Saving(r) => best[1].best_fitness = P[r].best_fitness
                /\ last[1].best_fitness >= best[1].best_fitness)

\* A resumed run has raised the checkpoint's best_fitness, written the "best"
\* slot, and then completed an epoch of lower fitness.
C26_Witness ==
    /\ run = "resumed" /\ resume[1].best_fitness = 1
    /\ C26_BestWritten
    /\ \E r \in ranks :
          /\ is_coordinator(r) /\ AfterEpoch(r)
          /\ P[r].best_fitness = 2 /\ P[r].fitness = 0
          /\ best[1].epoch < last[1].epoch

====
